---- MODULE Spec2Model ----
(***************************************************************************)
(* A model of the boundary discretisation of a level set (Boundary), of    *)
(* the measures computed from it (area fractions, normal vectors, holes)   *)
(* and of the velocity computation of Optimise.                            *)
(*                                                                         *)
(* Numbers.  The source computes in double.  Here a double is an integer   *)
(* count of model units: one grid spacing (1.0) is Grid units, and the     *)
(* tolerance 1e-6 of the source is Eps units.  Quotients are rounded to    *)
(* the nearest unit, the way a floating-point division rounds.  Lengths    *)
(* are held in half units, so that the product 0.5*length of               *)
(* computePointLengths is exact, as it is in binary floating point.        *)
(***************************************************************************)
EXTENDS Integers, Sequences, FiniteSets, TLC

VARIABLES
    width,          \* mesh.width: number of elements in x
    height,         \* mesh.height: number of elements in y
    signedDistance, \* levelSet.signedDistance, one value per node
    target,         \* levelSet.target, one value per node
    narrowBand,     \* levelSet.narrowBand, a list of node indices
    moveLimit,      \* levelSet.moveLimit
    nodes,          \* mesh.nodes[i].status and .boundaryPoints
    elements,       \* mesh.elements[i].status, .boundarySegments and .area
    points,         \* Boundary::points
    segments,       \* Boundary::segments
    nPoints,        \* Boundary::nPoints
    nSegments,      \* Boundary::nSegments
    length,         \* Boundary::length
    area,           \* Boundary::area
    nHoles,         \* Boundary::nHoles
    pc,             \* where the caller's pipeline stands
    calls,          \* number of discretise calls made so far
    lastIsTarget,   \* the argument isTarget of the last discretise call
    lambda,         \* the lambda values the solver hands to the callback
    velocities,     \* Optimise::velocities
    isSideLimit,    \* Optimise::isSideLimit
    gradient,       \* the gradient vector the callback hands back
    functionIndex,  \* the argument index of the last callback
    files,          \* the files on disk, by name
    written,        \* the indices of signedDistance the last load wrote to
    vtkDefaults,    \* the default arguments declared for saveLevelSetVTK
    lastCall        \* the last call of InputOutput and its arguments

vars == <<width, height, signedDistance, target, narrowBand, moveLimit, nodes,
          elements, points, segments, nPoints, nSegments, length, area, nHoles,
          pc, calls, lastIsTarget, lambda, velocities, isSideLimit, gradient,
          functionIndex, files, written, vtkDefaults, lastCall>>

\* The variables of Optimise.
optimiseVars == <<lambda, velocities, isSideLimit, gradient, functionIndex>>

\* The variables of InputOutput.
ioVars == <<files, written, vtkDefaults, lastCall>>

-----------------------------------------------------------------------------
(* Units and bounds *)

\* One grid spacing, in model units.
Grid == 10000

\* The tolerance 1e-6 of the source, in model units.
Eps == 2

\* Largest number of nodes whose signed distance differs from the background.
MaxMarked == 3

\* Largest number of discretise calls in one behaviour.
MaxCalls == 2

-----------------------------------------------------------------------------
(* Arithmetic *)

Abs(v) == IF v < 0 THEN 0 - v ELSE v

Min2(a, b) == IF a < b THEN a ELSE b

Max2(a, b) == IF a > b THEN a ELSE b

\* a / b rounded to the nearest integer, for a >= 0 and b > 0.
RoundDiv(a, b) == (2 * a + b) \div (2 * b)

RECURSIVE SqrtSearch(_, _, _)
SqrtSearch(n, lo, hi) ==
    IF lo >= hi THEN lo
    ELSE LET mid == (lo + hi + 1) \div 2
         IN IF mid * mid <= n THEN SqrtSearch(n, mid, hi)
            ELSE SqrtSearch(n, lo, mid - 1)

\* sqrt(n), rounded down.
ISqrt(n) == SqrtSearch(n, 0, 46340)

-----------------------------------------------------------------------------
(* The mesh: a structured grid of (width+1) x (height+1) nodes *)

nNodes == (width + 1) * (height + 1)

nElements == width * height

NodeSet == 0 .. (nNodes - 1)

ElementSet == 0 .. (nElements - 1)

xyToIndex(x, y) == y * (width + 1) + x

NodeCoord(n) == [x |-> (n % (width + 1)) * Grid, y |-> (n \div (width + 1)) * Grid]

\* A node on the edge of the domain.
NodeIsDomain(n) ==
    LET x == n % (width + 1)
        y == n \div (width + 1)
    IN x = 0 \/ x = width \/ y = 0 \/ y = height

\* The four nodes of an element, anticlockwise from the bottom left, so that
\* edge 0 is the bottom edge, 1 the right, 2 the top and 3 the left one.
ElementNodes(e) ==
    LET ex == e % width
        ey == e \div width
    IN <<xyToIndex(ex, ey), xyToIndex(ex + 1, ey),
         xyToIndex(ex + 1, ey + 1), xyToIndex(ex, ey + 1)>>

\* The centre of an element.
ElementCoord(e) ==
    [x |-> (e % width) * Grid + Grid \div 2, y |-> (e \div width) * Grid + Grid \div 2]

IsActive(n) == \E k \in 1 .. Len(narrowBand) : narrowBand[k] = n

-----------------------------------------------------------------------------
(* Boundary points and segments *)

\* A value-initialised BoundaryPoint (what vector::resize appends).
ZeroPoint ==
    [coord |-> [x |-> 0, y |-> 0], length |-> 0, negativeLimit |-> 0,
     positiveLimit |-> 0, isDomain |-> FALSE, sensitivities |-> <<>>,
     segments |-> <<>>, neighbours |-> <<>>, normal |-> <<0, 0>>]

\* A value-initialised BoundarySegment.
ZeroSegment == [start |-> 0, end |-> 0, element |-> 0, length |-> 0]

\* The first n elements of the vector v, with `zero` where v is shorter or k
\* is beyond `kept`.
Elements(v, n, kept, zero) ==
    LET f[k \in 0 .. n] ==
            IF k = 0 THEN <<>>
            ELSE Append(f[k - 1], IF k <= Len(v) /\ k <= kept THEN v[k] ELSE zero)
    IN f[n]

\* v.resize(n): the first n elements of v, value-initialised ones appended.
VectorResize(v, n, zero) == Elements(v, n, n, zero)

\* int size = 0.2*mesh.nNodes; size = std::max(4, size);
StorageSize == Max2(4, (2 * nNodes) \div 10)

-----------------------------------------------------------------------------
(* Boundary::computeMeshStatus *)

NodeStatusOf(v) ==
    IF Abs(v) < Eps THEN "BOUNDARY"
    ELSE IF v < 0 THEN "OUTSIDE"
    ELSE "INSIDE"

Tally(e, st, status) == Cardinality({j \in 1 .. 4 : st[ElementNodes(e)[j]] = status})

\* INSIDE only for an element with four INSIDE corners.
ElementStatusAllInside(e, st) ==
    IF Tally(e, st, "INSIDE") = 4 THEN "INSIDE"
    ELSE IF Tally(e, st, "INSIDE") = 0 THEN "OUTSIDE"
    ELSE "NONE"

ElementStatusOf(e, st) ==
    IF Tally(e, st, "OUTSIDE") = 0 THEN "INSIDE"
    ELSE IF Tally(e, st, "INSIDE") = 0 THEN "OUTSIDE"
    ELSE "NONE"

\* The node and element records after computeMeshStatus on the field sd; the
\* area of an element is left as it was.
computeMeshStatus(sd) ==
    LET st == [n \in NodeSet |-> NodeStatusOf(sd[n])]
    IN [nodes |-> [n \in NodeSet |-> [status |-> st[n], boundaryPoints |-> <<>>]],
        elements |-> [e \in ElementSet |->
                        [status |-> ElementStatusOf(e, st),
                         boundarySegments |-> <<>>,
                         area |-> elements[e].area]]]

-----------------------------------------------------------------------------
(* Boundary::isAdded, initialisePoint, segmentLength *)

\* The coordinates of the point at `distance` from `node` along `edge`, and
\* the index of a point of the node's list within the tolerance of it (-1 if
\* there is none).  b is the boundary and mesh during a pass.
isAdded(b, node, edge, distance) ==
    LET c == NodeCoord(node)
        point == IF edge = 0 THEN [x |-> c.x + distance, y |-> c.y]
                 ELSE IF edge = 1 THEN [x |-> c.x, y |-> c.y + distance]
                 ELSE IF edge = 2 THEN [x |-> c.x - distance, y |-> c.y]
                 ELSE [x |-> c.x, y |-> c.y - distance]
        bp == b.nodes[node].boundaryPoints
        hits == {i \in 1 .. Len(bp) :
                    /\ Abs(point.x - b.points[bp[i] + 1].coord.x) < Eps
                    /\ Abs(point.y - b.points[bp[i] + 1].coord.y) < Eps}
    IN [coord |-> point,
        index |-> IF hits = {} THEN 0 - 1
                  ELSE bp[CHOOSE i \in hits : \A k \in hits : i <= k]]

\* point.sensitivities.resize(2): values already there are kept.
ResizeSensitivities(s) == Elements(s, 2, 2, 0)

\* negativeLimit = minBoundary: the sign of the distance is dropped.
NegativeLimitUnsigned(coord) ==
    LET minX == Min2(coord.x, width * Grid - coord.x)
        minY == Min2(coord.y, height * Grid - coord.y)
        minBoundary == Min2(minX, minY)
    IN IF 2 * minBoundary < Grid THEN minBoundary ELSE 0 - moveLimit

NegativeLimitFor(coord) ==
    LET minX == Min2(coord.x, width * Grid - coord.x)
        minY == Min2(coord.y, height * Grid - coord.y)
        minBoundary == Min2(minX, minY)
    IN IF 2 * minBoundary < Grid THEN 0 - minBoundary ELSE 0 - moveLimit

IsDomainFor(coord) ==
    LET minX == Min2(coord.x, width * Grid - coord.x)
        minY == Min2(coord.y, height * Grid - coord.y)
        minBoundary == Min2(minX, minY)
    IN 2 * minBoundary < Grid /\ minBoundary < Eps

\* The point `point` of the storage after initialisePoint(point, coord); the
\* normal vector is not touched.
initialisePoint(point, coord) ==
    [point EXCEPT !.coord = coord,
                  !.length = 0,
                  !.segments = <<>>,
                  !.neighbours = <<>>,
                  !.isDomain = IsDomainFor(coord),
                  !.sensitivities = ResizeSensitivities(point.sensitivities),
                  !.negativeLimit = NegativeLimitFor(coord),
                  !.positiveLimit = moveLimit]

\* sqrt(dx*dx + dy*dy) between two points of the pass, in half units.
segmentLength(b, start, end) ==
    LET dx == b.points[start + 1].coord.x - b.points[end + 1].coord.x
        dy == b.points[start + 1].coord.y - b.points[end + 1].coord.y
    IN 2 * ISqrt(dx * dx + dy * dy)

-----------------------------------------------------------------------------
(* Boundary::discretise: the pass over the elements                        *)
(*                                                                         *)
(* During a pass b holds the mesh records, the two vectors and the         *)
(* counters.  points[nPoints] and segments[nSegments] are written without  *)
(* a check against the size of the vector: b.points and b.segments grow    *)
(* past StorageSize here, and the action decides what such a write does.   *)

\* initialisePoint(points[nPoints], coord), the registration of the new point
\* with the nodes regs, and nPoints++.
NewPoint(b, coord, regs) ==
    LET idx == b.nPoints
        old == IF idx < Len(b.points) THEN b.points[idx + 1] ELSE ZeroPoint
        p == initialisePoint(old, coord)
    IN [b EXCEPT !.points = IF idx < Len(b.points)
                            THEN [b.points EXCEPT ![idx + 1] = p]
                            ELSE Append(b.points, p),
                 !.nPoints = idx + 1,
                 !.nodes = [n \in NodeSet |->
                              IF n \in regs
                              THEN [b.nodes[n] EXCEPT
                                      !.boundaryPoints = Append(@, idx)]
                              ELSE b.nodes[n]]]

\* The segment from start to end in element i: its length, the total length,
\* the element's lookup, segments[nSegments] and nSegments++.
NewSegment(b, start, end, i) ==
    LET idx == b.nSegments
        s == [start |-> start, end |-> end, element |-> i,
              length |-> segmentLength(b, start, end)]
    IN [b EXCEPT !.segments = IF idx < Len(b.segments)
                              THEN [b.segments EXCEPT ![idx + 1] = s]
                              ELSE Append(b.segments, s),
                 !.nSegments = idx + 1,
                 !.length = @ + s.length,
                 !.elements = [b.elements EXCEPT
                                 ![i].boundarySegments = Append(@, idx)]]

\* The boundary point lying on a node: found by isAdded(coord, node, 0, 0), or
\* created and registered with the node.  Gives the pass and the index.
PointAtNode(b, node) ==
    LET r == isAdded(b, node, 0, 0)
    IN IF r.index < 0
       THEN [b |-> NewPoint(b, r.coord, {node}), index |-> b.nPoints]
       ELSE [b |-> b, index |-> r.index]

\* d = sd[n2] / (sd[n2] - sd[n1]): the fraction measured from the other end.
InterpolateFromSecond(d1, d2) == RoundDiv(Abs(d2) * Grid, Abs(d1 - d2))

\* d = sd[n1] / (sd[n1] - sd[n2]) on a cut edge, where the two values have
\* opposite signs.
Interpolate(d1, d2) == RoundDiv(Abs(d1) * Grid, Abs(d1 - d2))

\* (status(n1) | status(n2)) == NodeStatus::CUT
IsCutEdge(b, n1, n2) ==
    {b.nodes[n1].status, b.nodes[n2].status} = {"INSIDE", "OUTSIDE"}

\* Every edge is looked at, whatever its nodes.
EdgeExaminedAlways(isTarget, n1, n2) == TRUE

\* isTarget || (mesh.nodes[n1].isActive && mesh.nodes[n2].isActive)
EdgeExamined(isTarget, n1, n2) == isTarget \/ (IsActive(n1) /\ IsActive(n2))

\* One iteration of the loop over the edges of element i (lines 76-203).
\* s.b is the pass and s.cuts the local array boundaryPoints[0 .. nCut-1].
EdgeStep(s, i, j, sd, isTarget) ==
    LET b == s.b
        n1 == ElementNodes(i)[j + 1]
        n2 == ElementNodes(i)[((j + 1) % 4) + 1]
    IN IF ~EdgeExamined(isTarget, n1, n2) THEN s
       ELSE IF IsCutEdge(b, n1, n2)
       THEN LET r == isAdded(b, n1, j, Interpolate(sd[n1], sd[n2]))
            IN IF r.index < 0
               THEN [b |-> NewPoint(b, r.coord, {n1, n2}),
                     cuts |-> Append(s.cuts, b.nPoints)]
               ELSE [b |-> b, cuts |-> Append(s.cuts, r.index)]
       ELSE IF b.nodes[n1].status = "BOUNDARY" /\ b.nodes[n2].status = "BOUNDARY"
       THEN LET p1 == PointAtNode(b, n1)
                p2 == PointAtNode(p1.b, n2)
            IN [b |-> NewSegment(p2.b, p1.index, p2.index, i), cuts |-> s.cuts]
       ELSE s

\* One iteration of the loop of the one-cut case (lines 235-302).
OneCutStep(b, cut, i, j) ==
    LET node == ElementNodes(i)[j + 1]
        nAfter == ElementNodes(i)[((j + 1) % 4) + 1]
        nBefore == ElementNodes(i)[((j + 3) % 4) + 1]
    IN IF /\ b.nodes[node].status = "BOUNDARY"
          /\ \/ b.nodes[nAfter].status = "OUTSIDE"
             \/ b.nodes[nBefore].status = "OUTSIDE"
       THEN LET p == PointAtNode(b, node)
            IN NewSegment(p.b, cut, p.index, i)
       ELSE b

OneCut(b, cut, i) ==
    OneCutStep(OneCutStep(OneCutStep(OneCutStep(b, cut, i, 0), cut, i, 1), cut, i, 2),
               cut, i, 3)

\* The sum of the four nodal values of element i.
LsfSum(i, sd) ==
    sd[ElementNodes(i)[1]] + sd[ElementNodes(i)[2]]
        + sd[ElementNodes(i)[3]] + sd[ElementNodes(i)[4]]

\* The four-cut case (lines 307-408).
FourCut(b, bp, i, sd) ==
    LET lsfSum == LsfSum(i, sd)
        status == b.nodes[ElementNodes(i)[1]].status
        paired == IF \/ (status = "INSIDE" /\ lsfSum > 0)
                     \/ (status = "OUTSIDE" /\ lsfSum < 0)
                  THEN NewSegment(NewSegment(b, bp[1], bp[2], i), bp[3], bp[4], i)
                  ELSE NewSegment(NewSegment(b, bp[1], bp[4], i), bp[2], bp[3], i)
    IN [paired EXCEPT !.elements[i].status =
            IF lsfSum > 0 THEN "CENTRE_INSIDE" ELSE "CENTRE_OUTSIDE"]

\* The corners of element i that lie on the boundary, in corner order.
BoundaryCorners(b, i) ==
    LET f[j \in 0 .. 4] ==
            IF j = 0 THEN <<>>
            ELSE IF b.nodes[ElementNodes(i)[j]].status = "BOUNDARY"
                 THEN Append(f[j - 1], ElementNodes(i)[j])
                 ELSE f[j - 1]
    IN f[4]

\* The diagonal case (lines 412-496).  boundaryPoints[0] and [1] hold the
\* boundary corners found; an entry the loop did not write is read
\* uninitialised, and stale is the node index such a read gives.
Diagonal(b, i, stale) ==
    LET found == BoundaryCorners(b, i)
        node0 == IF Len(found) >= 1 THEN found[1] ELSE stale
        node1 == IF Len(found) >= 2 THEN found[2] ELSE stale
        p1 == PointAtNode(b, node0)
        p2 == PointAtNode(p1.b, node1)
    IN NewSegment(p2.b, p1.index, p2.index, i)

\* The loop over the four edges of element i, from edge j on.
RECURSIVE EdgeLoop(_, _, _, _, _)
EdgeLoop(s, i, j, sd, isTarget) ==
    IF j > 3 THEN s
    ELSE EdgeLoop(EdgeStep(s, i, j, sd, isTarget), i, j + 1, sd, isTarget)

\* The segments of element i, given the cut points the edge loop found
\* (lines 206-497).
CloseElement(b, bp, i, sd, stale) ==
    IF Len(bp) = 2 THEN NewSegment(b, bp[1], bp[2], i)
    ELSE IF Len(bp) = 1 THEN OneCut(b, bp[1], i)
    ELSE IF Len(bp) = 4 THEN FourCut(b, bp, i, sd)
    ELSE IF Len(bp) = 0 /\ b.elements[i].status # "INSIDE"
    THEN Diagonal(b, i, stale)
    ELSE b

\* One iteration of the loop over the elements (lines 63-498).
ProcessElement(b, i, sd, isTarget, stale) ==
    IF b.elements[i].status = "OUTSIDE" THEN b
    ELSE LET s == EdgeLoop([b |-> b, cuts |-> <<>>], i, 0, sd, isTarget)
         IN CloseElement(s.b, s.cuts, i, sd, stale)

RECURSIVE ProcessElements(_, _, _, _, _)
ProcessElements(b, i, sd, isTarget, stale) ==
    IF i >= nElements THEN b
    ELSE ProcessElements(ProcessElement(b, i, sd, isTarget, stale), i + 1, sd,
                         isTarget, stale)

\* The pass up to the final resize (lines 37-498).
\* pts and segs are the vectors the call finds in Boundary::points and
\* Boundary::segments.
PassFrom(pts, segs, sd, isTarget, stale) ==
    LET m == computeMeshStatus(sd)
        b0 == [nodes |-> m.nodes, elements |-> m.elements,
               points |-> VectorResize(pts, StorageSize, ZeroPoint),
               segments |-> VectorResize(segs, StorageSize, ZeroSegment),
               nPoints |-> 0, nSegments |-> 0, length |-> 0]
    IN ProcessElements(b0, 0, sd, isTarget, stale)

Pass(sd, isTarget, stale) == PassFrom(points, segments, sd, isTarget, stale)

-----------------------------------------------------------------------------
(* Boundary::computePointLengths *)

\* One iteration of the loop over the segments.
PointLengthStep(pts, segs, i) ==
    LET s == segs[i + 1].start
        e == segs[i + 1].end
        half == segs[i + 1].length \div 2
        p1 == [pts EXCEPT ![s + 1].length = @ + half]
        p2 == [p1 EXCEPT ![e + 1].length = @ + half]
        p3 == [p2 EXCEPT ![s + 1].segments = Append(@, i)]
        p4 == [p3 EXCEPT ![e + 1].segments = Append(@, i)]
        p5 == [p4 EXCEPT ![s + 1].neighbours = Append(@, e)]
    IN [p5 EXCEPT ![e + 1].neighbours = Append(@, s)]

RECURSIVE PointLengthLoop(_, _, _)
PointLengthLoop(pts, segs, i) ==
    IF i >= Len(segs) THEN pts
    ELSE PointLengthLoop(PointLengthStep(pts, segs, i), segs, i + 1)

computePointLengths(pts, segs) == PointLengthLoop(pts, segs, 0)

-----------------------------------------------------------------------------
(* The states after construction *)

\* The nodal values: far outside, on the zero contour, inside but only just
\* beyond the tolerance, and far inside.
FieldValues == {0 - 3 * Grid, 0, Eps + 1, 4 * Grid}

\* The value of the nodes that are not marked: all outside or all inside.
Backgrounds == {0 - 3 * Grid, 4 * Grid}

\* The fields over n nodes in which at most `marked` nodes differ from the
\* background.
Fields(n, marked) ==
    UNION {UNION {{[k \in 0 .. (n - 1) |-> IF k \in S THEN f[k] ELSE bg] :
                      f \in [S -> FieldValues \ {bg}]} :
                  S \in {T \in SUBSET (0 .. (n - 1)) : Cardinality(T) <= marked}} :
           bg \in Backgrounds}

\* The fields that are constant along y: a straight interface, or nodes lying
\* on the zero contour between an inside and an outside column.
Stripes ==
    {[k \in NodeSet |-> col[k % (width + 1)]] : col \in [0 .. width -> FieldValues]}

\* The fields of the 3x3 node grid with one value at the four corner nodes
\* and another at the five other nodes.
CornerFields ==
    IF width = 2 /\ height = 2
    THEN {[k \in NodeSet |-> IF k \in {0, 2, 6, 8} THEN c ELSE v] :
             c \in FieldValues, v \in FieldValues}
    ELSE {}

\* The meshes Init draws, as <<width, height>>.
MeshSizes == {<<1, 1>>, <<2, 1>>, <<2, 2>>}

\* The move limits Init draws.
MoveLimits == {0, Grid \div 4, Grid \div 2}

\* The sets of nodes Init leaves out of the narrow band.
InactiveSets == {{}, {0}, {nNodes \div 2}}

\* The narrow band without the nodes `inactive`, in ascending order.
BandList(inactive) ==
    LET f[k \in 0 .. nNodes] ==
            IF k = 0 THEN <<>>
            ELSE IF (k - 1) \in inactive THEN f[k - 1]
            ELSE Append(f[k - 1], k - 1)
    IN f[nNodes]

InitBoundary ==
    /\ points = <<>>
    /\ segments = <<>>
    /\ nPoints = 0
    /\ nSegments = 0
    /\ length = 0
    /\ area = 0
    /\ nHoles = 0
    /\ pc = "constructed"
    /\ calls = 0
    /\ lastIsTarget = FALSE
    /\ lambda = <<>>
    /\ velocities = <<>>
    /\ isSideLimit = <<>>
    /\ gradient = <<>>
    /\ functionIndex = 0
    /\ files = <<>>
    /\ written = {}
    /\ vtkDefaults = <<FALSE, FALSE>>
    /\ lastCall = [op |-> "none"]

InitMesh ==
    /\ nodes = [n \in NodeSet |-> [status |-> "NONE", boundaryPoints |-> <<>>]]
    /\ elements = [e \in ElementSet |->
                     [status |-> "NONE", boundarySegments |-> <<>>, area |-> 0]]

\* The number of nodes that may differ from the background: fewer on a mesh
\* of more than two elements, and fewer when a node is out of the narrow band.
Marks(inactive) ==
    IF inactive # {} THEN MaxMarked - 2
    ELSE IF nElements > 2 THEN MaxMarked - 1
    ELSE MaxMarked

\* The target fields that come with the field sd: sd itself, and sd with the
\* value of each node taken from the next one.
TargetFields(sd) == {sd, [n \in NodeSet |-> sd[(n + 1) % nNodes]]}

\* A level set on the one-element mesh comes with or without a target field.
\* One with the whole mesh in the narrow band comes with any move limit, one
\* with a node left out has the largest move limit.
Init ==
    /\ \E m \in MeshSizes : width = m[1] /\ height = m[2]
    /\ \E inactive \in InactiveSets :
          /\ narrowBand = BandList(inactive)
          /\ signedDistance \in
                Fields(nNodes, Marks(inactive)) \cup Stripes \cup CornerFields
          /\ target \in (IF nElements = 1
                         THEN {<<>>} \cup TargetFields(signedDistance)
                         ELSE {<<>>})
          /\ moveLimit \in (IF nElements <= 2 /\ inactive = {}
                            THEN MoveLimits ELSE {Grid \div 2})
    /\ InitMesh
    /\ InitBoundary

-----------------------------------------------------------------------------
(* Boundary::discretise *)

\* The elements in which the diagonal case reads an entry of boundaryPoints
\* that no iteration wrote.
ReadsUninitialised(sd, isTarget) ==
    \E i \in ElementSet :
        LET st == [n \in NodeSet |-> NodeStatusOf(sd[n])]
            cut(j) == LET n1 == ElementNodes(i)[j + 1]
                          n2 == ElementNodes(i)[((j + 1) % 4) + 1]
                      IN /\ EdgeExamined(isTarget, n1, n2)
                         /\ {st[n1], st[n2]} = {"INSIDE", "OUTSIDE"}
        IN /\ ElementStatusOf(i, st) = "NONE"
           /\ \A j \in 0 .. 3 : ~cut(j)
           /\ Tally(i, st, "BOUNDARY") < 2

\* The values an uninitialised entry of boundaryPoints is taken to hold: the
\* index of the first or of the last node.
StaleValues == {0, nNodes - 1}

\* The state after the final resize and computePointLengths (lines 500-505):
\* an element of either vector beyond StorageSize was never stored, and the
\* resize appends value-initialised elements in its place.
Finish(b) ==
    LET segs == Elements(b.segments, b.nSegments, StorageSize, ZeroSegment)
        pts == Elements(b.points, b.nPoints, StorageSize, ZeroPoint)
    IN /\ segments' = segs
       /\ points' = computePointLengths(pts, segs)
       /\ nPoints' = b.nPoints
       /\ nSegments' = b.nSegments
       /\ length' = b.length
       /\ nodes' = b.nodes
       /\ elements' = b.elements

\* discretise(isTarget).  A pass that finds more points or segments than
\* StorageSize writes past the end of a vector, and a pass that takes the
\* diagonal case with fewer than two boundary corners reads an entry of
\* boundaryPoints that was never written.  Both are undefined: the process
\* is killed, or it goes on with the elements written past the end lost and
\* with a node index as the value read.
Discretise(isTarget) ==
    /\ pc \in {"constructed", "discretised"}
    /\ calls < MaxCalls
    /\ isTarget => DOMAIN target = NodeSet
    /\ calls' = calls + 1
    /\ lastIsTarget' = isTarget
    /\ LET sd == IF isTarget THEN target ELSE signedDistance
           undefined == ReadsUninitialised(sd, isTarget)
       IN \E stale \in (IF undefined THEN StaleValues ELSE {0}) :
            LET b == Pass(sd, isTarget, stale)
                fits == b.nPoints <= StorageSize /\ b.nSegments <= StorageSize
            IN \/ /\ Finish(b)
                  /\ pc' = "discretised"
                  /\ UNCHANGED <<area, nHoles>>
               \/ /\ undefined \/ ~fits
                  /\ pc' = "crashed"
                  /\ UNCHANGED <<nodes, elements, points, segments, nPoints,
                                 nSegments, length, area, nHoles>>
    /\ UNCHANGED <<width, height, signedDistance, target, narrowBand, moveLimit>>
    /\ UNCHANGED optimiseVars
    /\ UNCHANGED ioVars

-----------------------------------------------------------------------------
(* Boundary::computeAreaFractions, cutArea, isClockwise, polygonArea *)

isClockwise(point1, point2, centre) ==
    IF (point1.x - centre.x) >= 0 /\ (point2.x - centre.x) < 0 THEN FALSE
    ELSE IF (point1.x - centre.x) < 0 /\ (point2.x - centre.x) >= 0 THEN TRUE
    ELSE IF (point1.x - centre.x) = 0 /\ (point2.x - centre.x) = 0
    THEN IF (point1.y - centre.y) >= 0 \/ (point2.y - centre.y) >= 0
         THEN ~(point1.y > point2.y)
         ELSE ~(point2.y > point1.y)
    ELSE LET det == (point1.x - centre.x) * (point2.y - centre.y)
                        - (point2.x - centre.x) * (point1.y - centre.y)
         IN ~(det < 0)

\* std::sort on a short range is an insertion sort: element i moves to the
\* front if it compares before the first one, and otherwise moves down while
\* it compares before its predecessor.
RECURSIVE LinearInsert(_, _, _, _)
LinearInsert(v, val, k, centre) ==
    IF isClockwise(val, v[k - 1], centre)
    THEN LinearInsert([v EXCEPT ![k] = v[k - 1]], val, k - 1, centre)
    ELSE [v EXCEPT ![k] = val]

RECURSIVE InsertionSort(_, _, _)
InsertionSort(v, i, centre) ==
    IF i > Len(v) THEN v
    ELSE IF isClockwise(v[i], v[1], centre)
    THEN InsertionSort(<<v[i]>> \o SubSeq(v, 1, i - 1) \o SubSeq(v, i + 1, Len(v)),
                       i + 1, centre)
    ELSE InsertionSort(LinearInsert(v, v[i], i, centre), i + 1, centre)

SortVertices(vertices, centre) ==
    IF Len(vertices) < 2 THEN vertices ELSE InsertionSort(vertices, 2, centre)

\* The area of the polygon through the sorted vertices (shoelace formula).
polygonArea(vertices, centre) ==
    LET v == SortVertices(vertices, centre)
        n == Len(v)
        sum[i \in 0 .. n] ==
            IF i = 0 THEN 0
            ELSE LET j == IF i = n THEN 1 ELSE i + 1
                 IN sum[i - 1] + (v[i].x * v[j].y - v[j].x * v[i].y)
    IN Abs(sum[n]) \div 2

\* The corners of element e that cutArea takes as vertices.
CornerVertices(e, status) ==
    LET f[i \in 0 .. 4] ==
            IF i = 0 THEN <<>>
            ELSE LET node == ElementNodes(e)[i]
                     n1 == ElementNodes(e)[(i % 4) + 1]
                     n2 == ElementNodes(e)[((i + 2) % 4) + 1]
                 IN IF nodes[node].status = status
                    THEN Append(f[i - 1], NodeCoord(node))
                    ELSE IF /\ nodes[node].status = "BOUNDARY"
                            /\ nodes[n1].status = "INSIDE"
                            /\ nodes[n2].status = "INSIDE"
                    THEN Append(f[i - 1], NodeCoord(node))
                    ELSE f[i - 1]
    IN f[4]

\* The start and end points of the segments of element e.
SegmentVertices(e) ==
    LET bs == elements[e].boundarySegments
        f[i \in 0 .. Len(bs)] ==
            IF i = 0 THEN <<>>
            ELSE f[i - 1] \o <<points[segments[bs[i] + 1].start + 1].coord,
                               points[segments[bs[i] + 1].end + 1].coord>>
    IN f[Len(bs)]

cutArea(e) ==
    LET status == IF elements[e].status = "CENTRE_OUTSIDE" THEN "OUTSIDE" ELSE "INSIDE"
        vertices == CornerVertices(e, status) \o SegmentVertices(e)
    IN IF elements[e].status = "CENTRE_OUTSIDE"
       THEN Grid * Grid - polygonArea(vertices, ElementCoord(e))
       ELSE polygonArea(vertices, ElementCoord(e))

\* The two status tests of computeAreaFractions taken for one another.
ElementAreaSwapped(e) ==
    IF elements[e].status = "OUTSIDE" THEN Grid * Grid
    ELSE IF elements[e].status = "INSIDE" THEN 0
    ELSE cutArea(e)

\* The area fraction computeAreaFractions gives element e; 1.0 is Grid*Grid.
ElementArea(e) ==
    IF elements[e].status = "INSIDE" THEN Grid * Grid
    ELSE IF elements[e].status = "OUTSIDE" THEN 0
    ELSE cutArea(e)

RECURSIVE SumAreas(_, _)
SumAreas(a, i) == IF i >= nElements THEN 0 ELSE a[i] + SumAreas(a, i + 1)

ComputeAreaFractions ==
    /\ pc \in {"discretised", "areas"}
    /\ LET a == [e \in ElementSet |-> ElementArea(e)]
       IN /\ elements' = [e \in ElementSet |-> [elements[e] EXCEPT !.area = a[e]]]
          /\ area' = SumAreas(a, 0)
    /\ pc' = "areas"
    /\ UNCHANGED <<width, height, signedDistance, target, narrowBand, moveLimit,
                   nodes, points, segments, nPoints, nSegments, length, nHoles,
                   calls, lastIsTarget>>
    /\ UNCHANGED optimiseVars
    /\ UNCHANGED ioVars

-----------------------------------------------------------------------------
(* Boundary::computeNormalVectors                                          *)
(*                                                                         *)
(* A component of a normal vector is an integer count of 1/NormalUnit, or  *)
(* NaN, the value a division of zero by zero gives.  A weight is 1/rSqd    *)
(* with rSqd in squared grid spacings, rounded to an integer.              *)

\* The length of a unit vector, in the units of a normal vector.
NormalUnit == Grid \div 10

NaN == 0 - 2 ^ 30

SignedRoundDiv(a, b) == IF a >= 0 THEN RoundDiv(a, b) ELSE 0 - RoundDiv(0 - a, b)

\* (vx, vy) / sqrt(vx*vx + vy*vy).  The vector is first brought to a fixed
\* number of significant bits, which leaves its direction as it is.
UnitVector(vx, vy) ==
    LET m == Max2(Abs(vx), Abs(vy))
    IN IF vx = NaN \/ vy = NaN \/ m = 0 THEN <<NaN, NaN>>
       ELSE LET down == (m \div 16384) + 1
                up == 16384 \div (m * 2)
                x == IF up >= 1 THEN vx * up * 2 ELSE SignedRoundDiv(vx, down)
                y == IF up >= 1 THEN vy * up * 2 ELSE SignedRoundDiv(vy, down)
                norm == ISqrt(x * x + y * y)
            IN <<SignedRoundDiv(x * NormalUnit, norm),
                 SignedRoundDiv(y * NormalUnit, norm)>>

\* The unit gradient of the signed distance at an interior node, by central
\* differences (lines 559-578); the factor 0.5 of both differences cancels.
NodeNormal(node) ==
    LET x == node % (width + 1)
        y == node \div (width + 1)
        gradX == signedDistance[xyToIndex(x + 1, y)] - signedDistance[xyToIndex(x - 1, y)]
        gradY == signedDistance[xyToIndex(x, y + 1)] - signedDistance[xyToIndex(x, y - 1)]
    IN UnitVector(gradX, gradY)

\* rSqd < 1e-6, with rSqd in squared model units (1.0 is Grid*Grid).
IsCoincident(rSqd) == rSqd < (Grid * Grid) \div 1000000

\* 1.0 / rSqd
InverseSquare(rSqd) == Max2(1, RoundDiv(Grid * Grid, rSqd))

NaNAdd(a, b) == IF a = NaN \/ b = NaN THEN NaN ELSE a + b

NaNScale(a, w) == IF a = NaN THEN NaN ELSE a * w

\* One iteration of the loop over the boundary points of a node (lines
\* 581-613).  r holds the arrays normal, weight and isSet.
NormalPointStep(r, node, j) ==
    LET point == nodes[node].boundaryPoints[j] + 1
        n == NodeNormal(node)
        dx == NodeCoord(node).x - points[point].coord.x
        dy == NodeCoord(node).y - points[point].coord.y
        rSqd == dx * dx + dy * dy
    IN IF IsCoincident(rSqd)
       THEN [normal |-> [r.normal EXCEPT ![point] = n],
             weight |-> [r.weight EXCEPT ![point] = 1],
             isSet |-> [r.isSet EXCEPT ![point] = TRUE]]
       ELSE IF ~r.isSet[point]
       THEN [normal |-> [r.normal EXCEPT ![point] =
                            <<NaNAdd(@[1], NaNScale(n[1], InverseSquare(rSqd))),
                              NaNAdd(@[2], NaNScale(n[2], InverseSquare(rSqd)))>>],
             weight |-> [r.weight EXCEPT ![point] = @ + InverseSquare(rSqd)],
             isSet |-> r.isSet]
       ELSE r

RECURSIVE NormalPointLoop(_, _, _)
NormalPointLoop(r, node, j) ==
    IF j > Len(nodes[node].boundaryPoints) THEN r
    ELSE NormalPointLoop(NormalPointStep(r, node, j), node, j + 1)

\* The loop over the narrow band (lines 551-615).
RECURSIVE NormalNodeLoop(_, _)
NormalNodeLoop(r, i) ==
    IF i > Len(narrowBand) THEN r
    ELSE LET node == narrowBand[i]
         IN IF Len(nodes[node].boundaryPoints) > 0 /\ ~NodeIsDomain(node)
            THEN NormalNodeLoop(NormalPointLoop(r, node, 1), i + 1)
            ELSE NormalNodeLoop(r, i + 1)

\* normal /= weight, then normal /= norm (lines 622-630).
InterpolatedNormal(normal, weight) ==
    IF weight = 0 \/ normal[1] = NaN \/ normal[2] = NaN THEN <<NaN, NaN>>
    ELSE UnitVector(SignedRoundDiv(normal[1], weight),
                    SignedRoundDiv(normal[2], weight))

computeNormalVectors ==
    LET r0 == [normal |-> [i \in 1 .. nPoints |-> <<0, 0>>],
               weight |-> [i \in 1 .. nPoints |-> 0],
               isSet |-> [i \in 1 .. nPoints |-> FALSE]]
        r == NormalNodeLoop(r0, 1)
    IN [i \in 1 .. nPoints |->
          [points[i] EXCEPT !.normal =
              IF ~points[i].isDomain
              THEN InterpolatedNormal(r.normal[i], r.weight[i])
              ELSE r.normal[i]]]

ComputeNormalVectors ==
    /\ pc = "areas"
    /\ points' = computeNormalVectors
    /\ pc' = "normals"
    /\ UNCHANGED <<width, height, signedDistance, target, narrowBand, moveLimit,
                   nodes, elements, segments, nPoints, nSegments, length, area,
                   nHoles, calls, lastIsTarget>>
    /\ UNCHANGED optimiseVars
    /\ UNCHANGED ioVars

-----------------------------------------------------------------------------
(* Boundary::computeHoles, generateAdjacencyMatrix, depthFirstSearch *)

\* The adjacency matrix over the boundary points: one entry in each direction
\* for every segment.
generateAdjacencyMatrix ==
    [p \in 0 .. (nPoints - 1) |->
        {q \in 0 .. (nPoints - 1) :
            \E k \in 1 .. nSegments :
                \/ segments[k].start = p /\ segments[k].end = q
                \/ segments[k].start = q /\ segments[k].end = p}]

\* The points visited once the search from `point` has looked at its
\* neighbours j, j + 1, ...
RECURSIVE depthFirstSearch(_, _, _, _)
depthFirstSearch(point, j, adjacencyMatrix, isVisited) ==
    IF j >= nPoints THEN isVisited \cup {point}
    ELSE IF j \in adjacencyMatrix[point] /\ j \notin isVisited /\ j # point
    THEN depthFirstSearch(point, j + 1, adjacencyMatrix,
            depthFirstSearch(j, 0, adjacencyMatrix, isVisited \cup {point}))
    ELSE depthFirstSearch(point, j + 1, adjacencyMatrix, isVisited \cup {point})

\* The number of searches started: one for each point not visited before.
RECURSIVE CountSearches(_, _, _)
CountSearches(i, adjacencyMatrix, isVisited) ==
    IF i >= nPoints THEN 0
    ELSE IF i \in isVisited THEN CountSearches(i + 1, adjacencyMatrix, isVisited)
    ELSE 1 + CountSearches(i + 1, adjacencyMatrix,
                           depthFirstSearch(i, 0, adjacencyMatrix, isVisited))

\* Every component counted as a hole, the first one too.
computeHolesAll == CountSearches(0, generateAdjacencyMatrix, {})

\* The components found beyond the first.
computeHoles ==
    LET found == CountSearches(0, generateAdjacencyMatrix, {})
    IN IF found = 0 THEN 0 ELSE found - 1

ComputeHoles ==
    /\ pc = "normals"
    /\ nHoles' = computeHoles
    /\ pc' = "holes"
    /\ UNCHANGED <<width, height, signedDistance, target, narrowBand, moveLimit,
                   nodes, elements, points, segments, nPoints, nSegments, length,
                   area, calls, lastIsTarget>>
    /\ UNCHANGED optimiseVars
    /\ UNCHANGED ioVars

Next ==
    \/ \E isTarget \in BOOLEAN : Discretise(isTarget)
    \/ ComputeAreaFractions
    \/ ComputeNormalVectors
    \/ ComputeHoles

Spec == Init /\ [][Next]_vars

-----------------------------------------------------------------------------
(* Properties of the boundary                                              *)

\* The boundary holds the result of a discretise call.
Discretised == pc \in {"discretised", "areas", "normals", "holes"}

AreasComputed == pc \in {"areas", "normals", "holes"}

NormalsComputed == pc \in {"normals", "holes"}

\* The field the last discretise call worked on.
LastField == IF lastIsTarget THEN target ELSE signedDistance

\* The last pass stayed within the storage and every node is active, so that
\* nothing undefined happened in it.
PassWellDefined ==
    /\ Discretised
    /\ nPoints <= StorageSize
    /\ nSegments <= StorageSize
    /\ Len(narrowBand) = nNodes

\* The signed distances at the corners of element e.
CornerValues(e) == {LastField[ElementNodes(e)[j]] : j \in 1 .. 4}

\* No corner of e is outside; some corner is outside and none is inside.
FullyInside(e) == \A v \in CornerValues(e) : v > 0 - Eps

FullyOutside(e) ==
    /\ \E v \in CornerValues(e) : v <= 0 - Eps
    /\ \A v \in CornerValues(e) : v < Eps

\* C1: after discretise and computeAreaFractions, every element with no
\* corner outside has area exactly 1.0 and every element with a corner
\* outside and no corner inside has area exactly 0.0.
C1_ExactAreas ==
    AreasComputed =>
        \A e \in ElementSet :
            /\ FullyInside(e) => elements[e].area = Grid * Grid
            /\ FullyOutside(e) => elements[e].area = 0

\* C1 witness: areas were computed on a mesh that has an element fully inside
\* and an element fully outside.
C1_Witness ==
    /\ AreasComputed
    /\ \E e \in ElementSet : FullyInside(e) /\ elements[e].area = Grid * Grid
    /\ \E e \in ElementSet : FullyOutside(e) /\ elements[e].area = 0

SumSegmentLengths ==
    LET f[k \in 0 .. nSegments] ==
            IF k = 0 THEN 0 ELSE f[k - 1] + segments[k].length
    IN f[nSegments]

SumPointLengths ==
    LET f[k \in 0 .. nPoints] ==
            IF k = 0 THEN 0 ELSE f[k - 1] + points[k].length
    IN f[nPoints]

\* C2: after any discretise call the total boundary length equals the sum of
\* the lengths of the segments and the sum of the integral lengths of the
\* points.
C2_LengthIsSum ==
    Discretised => length = SumSegmentLengths /\ length = SumPointLengths

\* C2 witness: a pass found more segments than the storage holds and went
\* on; the total counts a segment that the vector no longer holds.
C2_Witness ==
    /\ Discretised
    /\ nSegments > StorageSize
    /\ length > SumSegmentLengths

\* The coordinates of the boundary points, in order.
PointCoords == [i \in 1 .. nPoints |-> points[i].coord]

\* C3: a discretise call that follows a discretise call on the same field and
\* narrow band gives the same point count, the same point coordinates in the
\* same order and the same segments.
C3_Idempotent ==
    [][(pc = "discretised" /\ pc' = "discretised" /\ calls' = calls + 1
            /\ lastIsTarget' = lastIsTarget)
          => (nPoints' = nPoints /\ PointCoords' = PointCoords
                /\ segments' = segments)]_vars

\* C3 witness: discretise was called twice in succession.
C3_Witness == pc = "discretised" /\ calls = 2 /\ nSegments > 0

\* C5: every segment has start # end and length > 0.
C5_NoDegenerateSegment ==
    Discretised =>
        \A k \in 1 .. nSegments :
            segments[k].start # segments[k].end /\ segments[k].length > 0

\* C5 witness: a pass in which nothing undefined happened left a segment
\* from a point to itself, on a field with a value just beyond the tolerance.
C5_Witness ==
    /\ PassWellDefined
    /\ \E n \in NodeSet : LastField[n] = Eps + 1
    /\ \E k \in 1 .. nSegments :
          segments[k].start = segments[k].end /\ segments[k].length = 0

\* Two coordinates within the tolerance of each other in x and in y.
Coincide(c1, c2) == Abs(c1.x - c2.x) < Eps /\ Abs(c1.y - c2.y) < Eps

\* The index that edge j of element e resolves to on the present boundary.
ResolvedIndex(e, j) ==
    LET n1 == ElementNodes(e)[j + 1]
        n2 == ElementNodes(e)[((j + 1) % 4) + 1]
    IN isAdded([nodes |-> nodes, points |-> points], n1, j,
               Interpolate(LastField[n1], LastField[n2])).index

\* Edge j1 of e1 and edge j2 of e2 are one cut edge between active nodes,
\* seen from two elements.
SharedCutEdge(e1, j1, e2, j2) ==
    /\ e1 # e2
    /\ ElementNodes(e1)[j1 + 1] = ElementNodes(e2)[((j2 + 1) % 4) + 1]
    /\ ElementNodes(e2)[j2 + 1] = ElementNodes(e1)[((j1 + 1) % 4) + 1]
    /\ IsActive(ElementNodes(e1)[j1 + 1])
    /\ IsActive(ElementNodes(e2)[j2 + 1])
    /\ {nodes[ElementNodes(e1)[j1 + 1]].status,
        nodes[ElementNodes(e2)[j2 + 1]].status} = {"INSIDE", "OUTSIDE"}

\* C6: after a pass no two distinct boundary points lie within the tolerance
\* of each other, and a cut edge shared by two elements resolves to the same
\* point index from both.
C6_PointsCreatedOnce ==
    Discretised =>
        /\ \A i, k \in 1 .. nPoints :
              i # k => ~Coincide(points[i].coord, points[k].coord)
        /\ \A e1, e2 \in ElementSet : \A j1, j2 \in 0 .. 3 :
              SharedCutEdge(e1, j1, e2, j2) =>
                  /\ ResolvedIndex(e1, j1) >= 0
                  /\ ResolvedIndex(e1, j1) = ResolvedIndex(e2, j2)

\* C6 witness: a pass in which nothing undefined happened left two distinct
\* points within the tolerance of each other, and a shared edge that resolves
\* to two indices.
C6_Witness ==
    /\ PassWellDefined
    /\ \E i, k \in 1 .. nPoints :
          i # k /\ Coincide(points[i].coord, points[k].coord)
    /\ \E e1, e2 \in ElementSet : \E j1, j2 \in 0 .. 3 :
          /\ SharedCutEdge(e1, j1, e2, j2)
          /\ ResolvedIndex(e1, j1) >= 0
          /\ ResolvedIndex(e2, j2) >= 0
          /\ ResolvedIndex(e1, j1) # ResolvedIndex(e2, j2)

\* A coordinate inside the mesh domain.
InDomain(c) == 0 <= c.x /\ c.x <= width * Grid /\ 0 <= c.y /\ c.y <= height * Grid

\* C7: every boundary point inside the mesh domain has
\* negativeLimit <= 0 <= positiveLimit.
C7_LimitsBracketZero ==
    Discretised =>
        \A i \in 1 .. nPoints :
            InDomain(points[i].coord) =>
                points[i].negativeLimit <= 0 /\ 0 <= points[i].positiveLimit

\* C7 witness: a pass made a point with the whole move limit and a point
\* whose negative limit the nearby domain edge has cut down.
C7_Witness ==
    /\ PassWellDefined
    /\ moveLimit > 0
    /\ \E i \in 1 .. nPoints : points[i].negativeLimit = 0 - moveLimit
    /\ \E i \in 1 .. nPoints :
          /\ points[i].negativeLimit > 0 - moveLimit
          /\ points[i].negativeLimit < 0

\* The points joined to p by a chain of at most k segments.
RECURSIVE Reachable(_, _)
Reachable(p, k) ==
    IF k = 0 THEN {p}
    ELSE LET r == Reachable(p, k - 1)
         IN r \cup {q \in 0 .. (nPoints - 1) :
                      \E m \in 1 .. nSegments :
                          \/ segments[m].start \in r /\ segments[m].end = q
                          \/ segments[m].end \in r /\ segments[m].start = q}

\* The number of connected components of the graph of points and segments.
Components == Cardinality({Reachable(p, nPoints) : p \in 0 .. (nPoints - 1)})

IsUnitNormal(n) ==
    /\ n[1] # NaN
    /\ n[2] # NaN
    /\ Abs(n[1] * n[1] + n[2] * n[2] - NormalUnit * NormalUnit) <= 2 * NormalUnit

\* C9: after computeNormalVectors every point that is not on the domain
\* boundary has a normal vector of unit length.
C9_UnitNormals ==
    NormalsComputed =>
        \A i \in 1 .. nPoints : ~points[i].isDomain => IsUnitNormal(points[i].normal)

\* C9 witness: after a pass in which nothing undefined happened, the normal
\* of a point off the domain boundary is not a number.
C9_Witness ==
    /\ NormalsComputed
    /\ PassWellDefined
    /\ \E i \in 1 .. nPoints : ~points[i].isDomain /\ points[i].normal[1] = NaN

\* The 3x3 node grid, negative at the four corners and positive elsewhere.
CornersNegative ==
    /\ width = 2
    /\ height = 2
    /\ \A n \in NodeSet :
          IF n \in {0, 2, 6, 8} THEN signedDistance[n] < 0 ELSE signedDistance[n] > 0

\* The number of segments that start or end at point p.
Incident(p) ==
    Cardinality({k \in 1 .. nSegments : segments[k].start = p})
        + Cardinality({k \in 1 .. nSegments : segments[k].end = p})

\* C10: on the 3x3 node grid that is negative at the corners and positive
\* elsewhere, discretise gives exactly 4 segments that form one closed loop:
\* one component, two segments at every point.
C10_SingleLoop ==
    (CornersNegative /\ Discretised) =>
        /\ nSegments = 4
        /\ Components = 1
        /\ \A p \in 0 .. (nPoints - 1) : Incident(p) = 2

\* C10 witness: the pass on that grid found 8 points, one segment at each,
\* for a storage of 4.
C10_Witness ==
    /\ CornersNegative
    /\ Discretised
    /\ nSegments = 4
    /\ nPoints = 8
    /\ StorageSize = 4
    /\ \A p \in 0 .. (nPoints - 1) : Incident(p) = 1

-----------------------------------------------------------------------------
(* Optimise::computeVelocities                                             *)
(*                                                                         *)
(* Optimise is built on a vector of boundary points whose sensitivities    *)
(* the caller has set.  A lambda is a whole number here, and a sensitivity *)
(* and a velocity are counts of model units.                               *)

\* The sensitivities a caller sets, and the lambda values the solver tries.
SensitivityValues == {0 - Grid, 0, Grid \div 4}

LambdaValues == {0 - 2, 0, 1}

\* The numbers of boundary points Optimise is built on.
PointCounts == {1, 2}

\* The limits initialisePoint gives a point under the move limit ml: the
\* negative one is -ml, or minus the distance to a domain edge nearer than
\* half a grid spacing.
LimitPairs(ml) ==
    {[negativeLimit |-> 0 - d, positiveLimit |-> ml] : d \in {ml, 0, Grid \div 4}}

\* The boundary points handed to Optimise under the move limit ml.
OptimisePoints(ml) ==
    {[ZeroPoint EXCEPT !.negativeLimit = l.negativeLimit,
                       !.positiveLimit = l.positiveLimit,
                       !.sensitivities = sens] :
        l \in LimitPairs(ml), sens \in [1 .. 2 -> SensitivityValues]}

\* The state after Optimise's constructor.
InitOptimise ==
    /\ width = 1
    /\ height = 1
    /\ signedDistance = [n \in NodeSet |-> 4 * Grid]
    /\ target = <<>>
    /\ narrowBand = BandList({})
    /\ moveLimit \in MoveLimits
    /\ InitMesh
    /\ \E n \in PointCounts :
          /\ nPoints = n
          /\ points \in [1 .. n -> OptimisePoints(moveLimit)]
          /\ velocities = [i \in 1 .. n |-> 0]
          /\ isSideLimit = [i \in 1 .. n |-> FALSE]
    /\ segments = <<>>
    /\ nSegments = 0
    /\ length = 0
    /\ area = 0
    /\ nHoles = 0
    /\ pc = "optimise"
    /\ calls = 0
    /\ lastIsTarget = FALSE
    /\ lambda = <<>>
    /\ gradient = <<>>
    /\ functionIndex = 0
    /\ files = <<>>
    /\ written = {}
    /\ vtkDefaults = <<FALSE, FALSE>>
    /\ lastCall = [op |-> "none"]

\* The sum over the functions j of lambda[j] * sensitivities[j] for a point.
WeightedSensitivity(point, lam) ==
    LET f[j \in 0 .. Len(lam)] ==
            IF j = 0 THEN 0 ELSE f[j - 1] + lam[j] * point.sensitivities[j]
    IN f[Len(lam)]

\* Only the positive limit applied.
ClampVelocityAbove(v, point) ==
    IF v > point.positiveLimit THEN point.positiveLimit ELSE v

\* The velocity of a point brought back to the limit it exceeds.
ClampVelocity(v, point) ==
    IF v < point.negativeLimit THEN point.negativeLimit
    ELSE IF v > point.positiveLimit THEN point.positiveLimit
    ELSE v

\* Whether the velocity v of a point is cut by one of its limits.
SideLimitActive(v, point) == v < point.negativeLimit \/ v > point.positiveLimit

\* Every point taken to contribute, whatever its side limit.
ContributionUnclamped(point, sideLimit, index, j) ==
    point.sensitivities[index + 1] * point.sensitivities[j + 1]

\* The part of a point in the gradient of function `index` with respect to
\* lambda j: the chain rule through the clamp.  The velocity of a point whose
\* side limit is active, or whose limits are both 0, does not change with
\* lambda.
Contribution(point, sideLimit, index, j) ==
    IF sideLimit \/ (point.negativeLimit = 0 /\ point.positiveLimit = 0) THEN 0
    ELSE point.sensitivities[index + 1] * point.sensitivities[j + 1]

\* computeGradients(lambda, gradient, index): the gradient of function
\* `index` with respect to each lambda, given the side limits sl.
computeGradients(sl, index) ==
    [j \in 1 .. 2 |->
        LET f[i \in 0 .. nPoints] ==
                IF i = 0 THEN 0
                ELSE f[i - 1] + Contribution(points[i], sl[i], index, j - 1)
        IN f[nPoints]]

\* computeVelocities(lam), as the callback runs it for the solver.
ComputeVelocities(lam) ==
    /\ pc = "optimise"
    /\ lambda' = lam
    /\ velocities' = [i \in 1 .. nPoints |->
                        ClampVelocity(WeightedSensitivity(points[i], lam), points[i])]
    /\ isSideLimit' = [i \in 1 .. nPoints |->
                         SideLimitActive(WeightedSensitivity(points[i], lam), points[i])]
    /\ UNCHANGED <<width, height, signedDistance, target, narrowBand, moveLimit,
                   nodes, elements, points, segments, nPoints, nSegments, length,
                   area, nHoles, pc, calls, lastIsTarget>>
    /\ UNCHANGED ioVars

\* callback(lam, gradient, index), as the solver calls it for function
\* `index`: the velocities for lam, then the gradient of the function.
Callback(lam, index) ==
    /\ ComputeVelocities(lam)
    /\ functionIndex' = index
    /\ gradient' = computeGradients(
                      [i \in 1 .. nPoints |->
                          SideLimitActive(WeightedSensitivity(points[i], lam), points[i])],
                      index)

NextOptimise == \E lam \in [1 .. 2 -> LambdaValues], index \in 0 .. 1 : Callback(lam, index)

SpecOptimise == InitOptimise /\ [][NextOptimise]_vars

-----------------------------------------------------------------------------
(* Properties of Optimise *)

\* lambda_0 * sensitivity_0 + lambda_1 * sensitivity_1 for point i.
Unclamped(i) ==
    lambda[1] * points[i].sensitivities[1] + lambda[2] * points[i].sensitivities[2]

\* C4: for every lambda handed to computeVelocities, the velocity of each
\* point is the lambda-weighted sum of its sensitivities clamped into
\* [negativeLimit, positiveLimit]; it lies within the limits, and it is 0
\* for a point whose limits are both 0.
C4_VelocityClamped ==
    lambda # <<>> =>
        \A i \in 1 .. nPoints :
            /\ velocities[i] =
                  Max2(points[i].negativeLimit, Min2(points[i].positiveLimit, Unclamped(i)))
            /\ points[i].negativeLimit <= velocities[i]
            /\ velocities[i] <= points[i].positiveLimit
            /\ (points[i].negativeLimit = 0 /\ points[i].positiveLimit = 0)
                  => velocities[i] = 0

\* C4 witness: velocities were computed for a pinned point whose weighted
\* sum is not 0 and for a point whose sum lies below its negative limit.
C4_Witness ==
    /\ lambda # <<>>
    /\ \E i \in 1 .. nPoints :
          /\ points[i].negativeLimit = 0
          /\ points[i].positiveLimit = 0
          /\ Unclamped(i) # 0
          /\ velocities[i] = 0
    /\ \E i \in 1 .. nPoints :
          /\ points[i].negativeLimit < 0
          /\ Unclamped(i) < points[i].negativeLimit
          /\ velocities[i] = points[i].negativeLimit

-----------------------------------------------------------------------------
(* Properties of the storage and of the error handling *)

\* Point k of the storage was never initialised: initialisePoint gives every
\* point two sensitivities, vector::resize gives none.
LostPoint(k) == points[k].sensitivities = <<>>

\* Segment k of the storage is not the one its element has on record.
LostSegment(k) ==
    \/ segments[k] = ZeroSegment /\ k > StorageSize
    \/ \A j \in 1 .. Len(elements[segments[k].element].boundarySegments) :
          elements[segments[k].element].boundarySegments[j] # k - 1

\* C11: discretise never loses a point or a segment and never writes one
\* outside its storage: when more are found than the estimate
\* max(4, 0.2*nNodes) the storage is grown, so that a pass never stops the
\* program and every point and segment it found is in the vectors afterwards.
C11_StorageGrown ==
    /\ Discretised =>
          /\ Len(points) = nPoints
          /\ Len(segments) = nSegments
          /\ \A k \in 1 .. nPoints : ~LostPoint(k)
          /\ \A k \in 1 .. nSegments : ~LostSegment(k)

\* C11 witness: a pass with a full narrow band found more points than the
\* estimate holds, and a point beyond the estimate is not in the vector.
C11_Witness ==
    /\ Discretised
    /\ Len(narrowBand) = nNodes
    /\ nPoints > StorageSize
    /\ LostPoint(nPoints)

\* C12: computeNormalVectors signals an error instead of leaving a normal
\* that is not a number: no state after it holds a point off the domain
\* boundary with a NaN component in its normal.
C12_NoSilentNaN ==
    NormalsComputed =>
        \A i \in 1 .. nPoints :
            ~points[i].isDomain =>
                points[i].normal[1] # NaN /\ points[i].normal[2] # NaN

\* C12 witness: the gradient at an active node off the domain boundary is
\* zero, and computeNormalVectors has returned with a NaN normal at one of
\* that node's points.
C12_Witness ==
    /\ NormalsComputed
    /\ PassWellDefined
    /\ \E node \in NodeSet :
          /\ IsActive(node)
          /\ ~NodeIsDomain(node)
          /\ NodeNormal(node) = <<NaN, NaN>>
          /\ \E j \in 1 .. Len(nodes[node].boundaryPoints) :
                LET p == points[nodes[node].boundaryPoints[j] + 1]
                IN ~p.isDomain /\ p.normal[1] = NaN

-----------------------------------------------------------------------------
(* Properties of the mesh status *)

\* The status the claim gives a node whose signed distance is v.
ClaimedNodeStatus(v) ==
    IF 0 - Eps < v /\ v < Eps THEN "BOUNDARY"
    ELSE IF v < 0 THEN "OUTSIDE"
    ELSE "INSIDE"

\* The statuses of the four corner nodes of element e.
CornerStatuses(e) == {nodes[ElementNodes(e)[j]].status : j \in 1 .. 4}

\* C13: after computeMeshStatus every node is BOUNDARY iff its signed distance
\* is within the tolerance of zero, else OUTSIDE iff it is negative, else
\* INSIDE; every element is INSIDE iff no corner is OUTSIDE, else OUTSIDE iff
\* no corner is INSIDE, else ambiguous (no status, which a 4-cut element
\* later refines to a centre status).
C13_MeshStatus ==
    Discretised =>
        /\ \A n \in NodeSet : nodes[n].status = ClaimedNodeStatus(LastField[n])
        /\ \A e \in ElementSet :
              /\ elements[e].status = "INSIDE" <=> "OUTSIDE" \notin CornerStatuses(e)
              /\ elements[e].status = "OUTSIDE" <=>
                    ("OUTSIDE" \in CornerStatuses(e) /\ "INSIDE" \notin CornerStatuses(e))
              /\ elements[e].status \in {"NONE", "CENTRE_INSIDE", "CENTRE_OUTSIDE"} <=>
                    ("OUTSIDE" \in CornerStatuses(e) /\ "INSIDE" \in CornerStatuses(e))

\* C13 witness: one pass classified nodes of all three kinds, an element with
\* a BOUNDARY corner and no OUTSIDE corner as INSIDE, and another element as
\* ambiguous.
C13_Witness ==
    /\ Discretised
    /\ {nodes[n].status : n \in NodeSet} = {"INSIDE", "OUTSIDE", "BOUNDARY"}
    /\ \E e \in ElementSet :
          /\ elements[e].status = "INSIDE"
          /\ "BOUNDARY" \in CornerStatuses(e)
    /\ \E e \in ElementSet : elements[e].status = "NONE"

-----------------------------------------------------------------------------
(* Properties of the edge loop *)

\* The coordinate c is that of a node.
AtNode(c) == \E n \in NodeSet : NodeCoord(n) = c

\* Two nodes joined by an element edge.
Adjacent(n1, n2) ==
    Abs(NodeCoord(n1).x - NodeCoord(n2).x) + Abs(NodeCoord(n1).y - NodeCoord(n2).y) = Grid

\* c lies on the edge from n1 to n2, strictly between the two nodes.
StrictlyBetween(c, n1, n2) ==
    LET c1 == NodeCoord(n1)
        c2 == NodeCoord(n2)
    IN \/ /\ c.y = c1.y /\ c.y = c2.y
          /\ Min2(c1.x, c2.x) < c.x /\ c.x < Max2(c1.x, c2.x)
       \/ /\ c.x = c1.x /\ c.x = c2.x
          /\ Min2(c1.y, c2.y) < c.y /\ c.y < Max2(c1.y, c2.y)

\* The point at fraction d1/(d1 - d2) of the way from n1 to n2, for the
\* values d1 and d2 of the field sd at the two nodes.
EdgePosition(sd, n1, n2) ==
    LET c1 == NodeCoord(n1)
        c2 == NodeCoord(n2)
        dist == RoundDiv(Abs(sd[n1]) * Grid, Abs(sd[n1] - sd[n2]))
    IN [x |-> c1.x + ((c2.x - c1.x) \div Grid) * dist,
        y |-> c1.y + ((c2.y - c1.y) \div Grid) * dist]

\* The pairs <<n1, n2>> of nodes that are an edge of some element, in the
\* direction in which that element goes round.
ElementEdges ==
    {<<ElementNodes(e)[j + 1], ElementNodes(e)[((j + 1) % 4) + 1]>> :
        e \in ElementSet, j \in 0 .. 3}

\* The edges of the elements that the element loop does not skip as OUTSIDE.
ExaminedEdges ==
    {<<ElementNodes(e)[j + 1], ElementNodes(e)[((j + 1) % 4) + 1]>> :
        e \in {i \in ElementSet : elements[i].status # "OUTSIDE"}, j \in 0 .. 3}

\* Some segment of the boundary joins a point at node n1 to a point at n2.
SegmentJoins(n1, n2) ==
    \E k \in 1 .. Len(segments) :
        /\ segments[k].start < Len(points)
        /\ segments[k].end < Len(points)
        /\ points[segments[k].start + 1].coord = NodeCoord(n1)
        /\ points[segments[k].end + 1].coord = NodeCoord(n2)
        /\ ~LostPoint(segments[k].start + 1)
        /\ ~LostPoint(segments[k].end + 1)

\* C14: a discretise call on the current field leaves an interpolated point
\* only on an edge whose two nodes are both active, and a segment between
\* two BOUNDARY nodes of one edge only if both are active; a call on the
\* target field classifies the nodes by the target values and has, whatever
\* the narrow band, for every edge of an element that is not OUTSIDE, a point
\* within the tolerance of the interpolated position if the edge is cut and a
\* segment along it if its nodes are both BOUNDARY.
C14_ActiveEdgesOnly ==
    Discretised =>
        /\ ~lastIsTarget =>
              /\ \A k \in 1 .. Len(points) :
                    (~LostPoint(k) /\ ~AtNode(points[k].coord)) =>
                        \E n1, n2 \in NodeSet :
                            /\ Adjacent(n1, n2)
                            /\ IsActive(n1)
                            /\ IsActive(n2)
                            /\ StrictlyBetween(points[k].coord, n1, n2)
              /\ \A n1, n2 \in NodeSet :
                    (/\ Adjacent(n1, n2)
                     /\ nodes[n1].status = "BOUNDARY"
                     /\ nodes[n2].status = "BOUNDARY"
                     /\ SegmentJoins(n1, n2)) => (IsActive(n1) /\ IsActive(n2))
        /\ lastIsTarget =>
              /\ \A n \in NodeSet : nodes[n].status = ClaimedNodeStatus(target[n])
              /\ \A ed \in ExaminedEdges :
                    /\ ({ClaimedNodeStatus(target[ed[1]]),
                         ClaimedNodeStatus(target[ed[2]])} = {"INSIDE", "OUTSIDE"}) =>
                          \E k \in 1 .. Len(points) :
                              Coincide(points[k].coord,
                                       EdgePosition(target, ed[1], ed[2]))
                    /\ ({ClaimedNodeStatus(target[ed[1]]),
                         ClaimedNodeStatus(target[ed[2]])} = {"BOUNDARY"}) =>
                          SegmentJoins(ed[1], ed[2])

\* C14 witness, current field: an edge that the field cuts has a node out of
\* the narrow band, and the pass left an interpolated point elsewhere.
C14_Witness ==
    /\ Discretised
    /\ ~lastIsTarget
    /\ \E ed \in ElementEdges :
          /\ ~IsActive(ed[1])
          /\ {nodes[ed[1]].status, nodes[ed[2]].status} = {"INSIDE", "OUTSIDE"}
    /\ \E k \in 1 .. Len(points) : ~LostPoint(k) /\ ~AtNode(points[k].coord)

\* Target mode reached: the call worked on a target field that differs from
\* the current one at a cut edge with a node out of the narrow band.
C14_TargetReached ==
    /\ Discretised
    /\ lastIsTarget
    /\ target # signedDistance
    /\ \E ed \in ElementEdges :
          /\ ~IsActive(ed[1])
          /\ {nodes[ed[1]].status, nodes[ed[2]].status} = {"INSIDE", "OUTSIDE"}
          /\ NodeStatusOf(signedDistance[ed[1]]) = NodeStatusOf(signedDistance[ed[2]])

-----------------------------------------------------------------------------
(* The edge shared by two elements                                         *)
(*                                                                         *)
(* Two elements on the current field, with nodal values whose quotient     *)
(* d1/(d1 - d2) is rounded: the division rounds to the nearest value that  *)
(* can be represented, as the double division of the source does, so that  *)
(* the fractions seen from the two ends of an edge need not add up to one  *)
(* (in doubles, 0 + 1.0/3 differs from 1 - 2.0/3).                         *)

\* Nodal values away from the zero contour; 3/(3 + 93) of a grid spacing is
\* halfway between two model units.
EdgeValues == {0 - 3 * Grid, 0 - 93, Eps + 1, 4 * Grid}

\* The state after construction on the mesh of two elements.
InitShared ==
    /\ width = 2
    /\ height = 1
    /\ signedDistance \in [NodeSet -> EdgeValues]
    /\ target = <<>>
    /\ narrowBand = BandList({})
    /\ moveLimit = Grid \div 2
    /\ InitMesh
    /\ InitBoundary

NextShared == Discretise(FALSE)

SpecShared == InitShared /\ [][NextShared]_vars

\* The edges that the last field cuts: one node INSIDE, the other OUTSIDE.
CutEdges ==
    {ed \in ElementEdges : {nodes[ed[1]].status, nodes[ed[2]].status} = {"INSIDE", "OUTSIDE"}}

\* The cut edges that two elements go along, each in its own direction.
SharedCutEdges == {ed \in CutEdges : <<ed[2], ed[1]>> \in ElementEdges}

\* Every interpolated point in the vector lies strictly between the nodes of
\* a cut edge, at the fraction d1/(d1 - d2) from the first node of the edge
\* as one of its elements goes along it.
OnCutEdgeAtFraction ==
    \A k \in 1 .. Len(points) :
        (~LostPoint(k) /\ ~AtNode(points[k].coord)) =>
            \E ed \in CutEdges :
                /\ StrictlyBetween(points[k].coord, ed[1], ed[2])
                /\ points[k].coord = EdgePosition(LastField, ed[1], ed[2])

\* C15 as stated: an interpolated point lies on its cut edge strictly
\* between the two nodes at fraction d1/(d1 - d2) from the first node, and
\* the two elements that share a cut edge, going along it in opposite
\* directions, compute the very same position.
C15_SamePosition ==
    Discretised =>
        /\ OnCutEdgeAtFraction
        /\ \A ed \in SharedCutEdges :
              EdgePosition(LastField, ed[1], ed[2]) = EdgePosition(LastField, ed[2], ed[1])

\* C15 amended: as above, but the positions that the two elements compute
\* for a shared cut edge agree within the tolerance 1e-6 in x and in y (they
\* may differ by the rounding of the division).
C15_PositionWithinTolerance ==
    Discretised =>
        /\ OnCutEdgeAtFraction
        /\ \A ed \in SharedCutEdges :
              Coincide(EdgePosition(LastField, ed[1], ed[2]),
                       EdgePosition(LastField, ed[2], ed[1]))

\* C15 witness: the edge between the two elements is cut, its point is in
\* the vector, and the position computed from the other end is another one.
C15_Witness ==
    /\ Discretised
    /\ <<1, 4>> \in CutEdges
    /\ \E k \in 1 .. Len(points) :
          /\ ~LostPoint(k)
          /\ points[k].coord = EdgePosition(LastField, 1, 4)
    /\ EdgePosition(LastField, 4, 1) # EdgePosition(LastField, 1, 4)

-----------------------------------------------------------------------------
(* Properties of the element with four cut edges *)

\* The edge j of element e, from its first node to its second.
ElementEdge(e, j) == <<ElementNodes(e)[j + 1], ElementNodes(e)[((j + 1) % 4) + 1]>>

\* The elements in which the last pass found four cut edges.
FourCutElements ==
    {e \in ElementSet :
        \A j \in 0 .. 3 :
            /\ ElementEdge(e, j) \in CutEdges
            /\ lastIsTarget \/ (IsActive(ElementEdge(e, j)[1]) /\ IsActive(ElementEdge(e, j)[2]))}

\* The interpolated position on edge j of element e.
EdgePoint(e, j) == EdgePosition(LastField, ElementEdge(e, j)[1], ElementEdge(e, j)[2])

\* The sum of the nodal values of the last field over the corners of e.
NodalSum(e) ==
    LastField[ElementNodes(e)[1]] + LastField[ElementNodes(e)[2]]
        + LastField[ElementNodes(e)[3]] + LastField[ElementNodes(e)[4]]

\* The indices into `segments` of the segments on record for element e.
SegmentsOf(e) ==
    {elements[e].boundarySegments[j] + 1 : j \in 1 .. Len(elements[e].boundarySegments)}

\* Segment k is in the vector with both its points.
Stored(k) ==
    /\ k \in 1 .. Len(segments)
    /\ segments[k].start < Len(points)
    /\ segments[k].end < Len(points)

\* The coordinates of the start and of the end of a stored segment.
StartOf(k) == points[segments[k].start + 1].coord

EndOf(k) == points[segments[k].end + 1].coord

\* Segment k joins the interpolated points of the edges a and b of element e.
Joins(k, e, a, b) ==
    /\ Stored(k)
    /\ \/ Coincide(StartOf(k), EdgePoint(e, a)) /\ Coincide(EndOf(k), EdgePoint(e, b))
       \/ Coincide(StartOf(k), EdgePoint(e, b)) /\ Coincide(EndOf(k), EdgePoint(e, a))

\* The sign of the turn from p to q to r.
Turn(p, q, r) ==
    LET v == (q.x - p.x) * (r.y - p.y) - (q.y - p.y) * (r.x - p.x)
    IN IF v > 0 THEN 1 ELSE IF v < 0 THEN 0 - 1 ELSE 0

\* The stored segments k1 and k2 cross at a point inside both.
Cross(k1, k2) ==
    /\ Turn(StartOf(k1), EndOf(k1), StartOf(k2)) * Turn(StartOf(k1), EndOf(k1), EndOf(k2)) < 0
    /\ Turn(StartOf(k2), EndOf(k2), StartOf(k1)) * Turn(StartOf(k2), EndOf(k2), EndOf(k1)) < 0

\* The segments of the four-cut element e are two, they join the points of
\* the adjacent edges that the first corner and the nodal sum select, and
\* they do not cross.
PairedAsSelected(e) ==
    LET first == nodes[ElementNodes(e)[1]].status
        oneWay == \/ first = "INSIDE" /\ NodalSum(e) > 0
                  \/ first = "OUTSIDE" /\ NodalSum(e) < 0
    IN /\ Len(elements[e].boundarySegments) = 2
       /\ Cardinality(SegmentsOf(e)) = 2
       /\ \A k \in SegmentsOf(e) : Stored(k)
       /\ IF oneWay
          THEN /\ \E k \in SegmentsOf(e) : Joins(k, e, 0, 1)
               /\ \E k \in SegmentsOf(e) : Joins(k, e, 2, 3)
          ELSE /\ \E k \in SegmentsOf(e) : Joins(k, e, 0, 3)
               /\ \E k \in SegmentsOf(e) : Joins(k, e, 1, 2)
       /\ \A k1, k2 \in SegmentsOf(e) : k1 # k2 => ~Cross(k1, k2)

\* The two segments of the four-cut element e have four distinct end points.
NoSharedEndpoint(e) ==
    \A k1, k2 \in SegmentsOf(e) :
        (k1 # k2 /\ k1 \in 1 .. Len(segments) /\ k2 \in 1 .. Len(segments)) =>
            Cardinality({segments[k1].start, segments[k1].end,
                         segments[k2].start, segments[k2].end}) = 4

\* C16: an element with four cut edges gets exactly two segments, each
\* between the interpolated points of two adjacent edges: edges 0-1 and 2-3
\* when the first corner is INSIDE and the nodal sum positive or the first
\* corner OUTSIDE and the sum negative, edges 0-3 and 1-2 otherwise; the two
\* segments share no end point and do not cross.
C16_FourCutPairing ==
    Discretised => \A e \in FourCutElements : PairedAsSelected(e) /\ NoSharedEndpoint(e)

\* C16 witness: in a pass in which nothing undefined happened, the two
\* segments of a four-cut element share an end point.
C16_Witness ==
    /\ PassWellDefined
    /\ \E e \in FourCutElements : ~NoSharedEndpoint(e)

\* The pairing as selected, in the passes in which nothing undefined
\* happened.
FourCutPairedWhenDefined ==
    PassWellDefined => \A e \in FourCutElements : PairedAsSelected(e)

\* No shared end point, in the passes in which nothing undefined happened and
\* no nodal value lies within two tolerances of zero.
FourCutDistinctAwayFromZero ==
    (PassWellDefined /\ \A n \in NodeSet : Abs(LastField[n]) > Eps + 1) =>
        \A e \in FourCutElements : NoSharedEndpoint(e)

-----------------------------------------------------------------------------
(* The centre status of the element with four cut edges                    *)
(*                                                                         *)
(* One element on the current field, with nodal values far from zero whose *)
(* sum over the element can be negative, zero or positive.                 *)

FourCutValues == {0 - 4 * Grid, 0 - 3 * Grid, 3 * Grid, 4 * Grid}

\* The state after construction on the mesh of one element.
InitFourCut ==
    /\ width = 1
    /\ height = 1
    /\ signedDistance \in [NodeSet -> FourCutValues]
    /\ target = <<>>
    /\ narrowBand = BandList({})
    /\ moveLimit \in MoveLimits
    /\ InitMesh
    /\ InitBoundary

NextFourCut ==
    \/ Discretise(FALSE)
    \/ ComputeAreaFractions

SpecFourCut == InitFourCut /\ [][NextFourCut]_vars

\* Corner c (0 .. 3) of element e lies between its edges c-1 and c: a
\* segment between the points of those two edges cuts the corner off.
CutsOff(e, c) == \E k \in SegmentsOf(e) : Joins(k, e, (c + 3) % 4, c)

\* The side of the corners that the segments of a four-cut element must cut
\* off for its recorded centre status.
OppositeOfCentre(e) ==
    IF elements[e].status = "CENTRE_INSIDE" THEN "OUTSIDE" ELSE "INSIDE"

\* Twice the area of the triangle between corner c of element e and the
\* interpolated points of the two edges at that corner.
TwiceCornerTriangle(e, c) ==
    LET n == NodeCoord(ElementNodes(e)[c + 1])
        p == EdgePoint(e, (c + 3) % 4)
        q == EdgePoint(e, c)
    IN Abs((p.x - n.x) * (q.y - n.y) - (p.y - n.y) * (q.x - n.x))

\* The area of the material that the segments of the four-cut element e
\* enclose: the triangles at the cut-off corners if these are INSIDE, the
\* rest of the element if they are OUTSIDE.
EnclosedArea(e) ==
    LET cut == {c \in 0 .. 3 : CutsOff(e, c)}
        f[c \in 0 .. 4] ==
            IF c = 0 THEN 0
            ELSE f[c - 1] + (IF (c - 1) \in cut THEN TwiceCornerTriangle(e, c - 1) ELSE 0)
        inside == \A c \in cut : nodes[ElementNodes(e)[c + 1]].status = "INSIDE"
    IN IF inside THEN f[4] \div 2 ELSE Grid * Grid - f[4] \div 2

\* The recorded centre status of the four-cut element e follows the sign of
\* the nodal sum, and the corners cut off are those of the opposite side.
CentreAgrees(e) ==
    /\ elements[e].status \in {"CENTRE_INSIDE", "CENTRE_OUTSIDE"}
    /\ elements[e].status = "CENTRE_INSIDE" <=> NodalSum(e) > 0
    /\ \A c \in 0 .. 3 :
          CutsOff(e, c) <=> nodes[ElementNodes(e)[c + 1]].status = OppositeOfCentre(e)

\* C17: in an element with four cut edges the recorded centre status is
\* CENTRE_INSIDE iff the nodal sum is positive, the two segments cut off
\* exactly the two corners on the side opposite to the recorded centre, also
\* for a nodal sum of zero, and the area computeAreaFractions gives the
\* element is that of the region the segments enclose.
C17_CentreAgreesWithPairing ==
    /\ Discretised => \A e \in FourCutElements : CentreAgrees(e)
    /\ AreasComputed =>
          \A e \in FourCutElements : Abs(elements[e].area - EnclosedArea(e)) <= 2

\* C17 witness: a four-cut element with a nodal sum of zero has its area
\* computed, and it is not the area its segments enclose.
C17_Witness ==
    /\ AreasComputed
    /\ PassWellDefined
    /\ \E e \in FourCutElements :
          /\ NodalSum(e) = 0
          /\ ~CentreAgrees(e)
          /\ Abs(elements[e].area - EnclosedArea(e)) > 2

\* The centre status agrees with the pairing and the area is the enclosed
\* one whenever the nodal sum is not zero, or the first corner is INSIDE.
CentreAgreesOffZero ==
    PassWellDefined =>
        \A e \in FourCutElements :
            (NodalSum(e) # 0 \/ nodes[ElementNodes(e)[1]].status = "INSIDE") =>
                /\ CentreAgrees(e)
                /\ AreasComputed => Abs(elements[e].area - EnclosedArea(e)) <= 2

-----------------------------------------------------------------------------
(* Properties of the diagonal case *)

\* Edge j of element e was looked at in the last pass and found cut.
FoundCut(e, j) ==
    /\ ElementEdge(e, j) \in CutEdges
    /\ lastIsTarget \/ (IsActive(ElementEdge(e, j)[1]) /\ IsActive(ElementEdge(e, j)[2]))

\* The elements in which the last pass took the branch for no cut edge in an
\* element that is not INSIDE.
DiagonalElements ==
    {e \in ElementSet :
        /\ elements[e].status = "NONE"
        /\ \A j \in 0 .. 3 : ~FoundCut(e, j)}

\* The corners (0 .. 3) of element e whose node is BOUNDARY.
BoundaryCornersOf(e) == {c \in 0 .. 3 : nodes[ElementNodes(e)[c + 1]].status = "BOUNDARY"}

\* Element e has two BOUNDARY corners, opposite each other, and one segment
\* on record, which joins the points at those two nodes.
JoinsDiagonal(e) ==
    /\ BoundaryCornersOf(e) \in {{0, 2}, {1, 3}}
    /\ Len(elements[e].boundarySegments) = 1
    /\ \A k \in SegmentsOf(e) :
          /\ Stored(k)
          /\ ~LostPoint(segments[k].start + 1)
          /\ ~LostPoint(segments[k].end + 1)
          /\ {StartOf(k), EndOf(k)} =
                {NodeCoord(ElementNodes(e)[c + 1]) : c \in BoundaryCornersOf(e)}

\* C18: whenever discretise takes the branch for no cut edge in an element
\* that is not INSIDE, the element has exactly two BOUNDARY corners, they are
\* diagonally opposite, and exactly one segment is emitted, between the
\* points at those two nodes; in target mode and with any narrow band.
C18_DiagonalBranch ==
    Discretised => \A e \in DiagonalElements : JoinsDiagonal(e)

\* C18 witness: the branch was taken in an element without any BOUNDARY
\* corner, whose cut edges have a node out of the narrow band.
C18_Witness ==
    /\ Discretised
    /\ ~lastIsTarget
    /\ \E e \in DiagonalElements : BoundaryCornersOf(e) = {}

\* The diagonal case is as claimed when every edge is looked at (target mode
\* or the whole mesh in the narrow band) and the pass fits the storage.
DiagonalWhenAllExamined ==
    (/\ Discretised
     /\ lastIsTarget \/ Len(narrowBand) = nNodes
     /\ nPoints <= StorageSize
     /\ nSegments <= StorageSize) => \A e \in DiagonalElements : JoinsDiagonal(e)

-----------------------------------------------------------------------------
(* Properties of the case of one cut edge *)

\* The elements in which the last pass counted exactly one cut edge.
OneCutElements ==
    {e \in ElementSet :
        /\ elements[e].status = "NONE"
        /\ Cardinality({j \in 0 .. 3 : FoundCut(e, j)}) = 1}

\* The BOUNDARY corners of element e with an OUTSIDE node before or after
\* them in the element.
OutsideNeighbourCorners(e) ==
    {c \in BoundaryCornersOf(e) :
        \/ nodes[ElementNodes(e)[((c + 1) % 4) + 1]].status = "OUTSIDE"
        \/ nodes[ElementNodes(e)[((c + 3) % 4) + 1]].status = "OUTSIDE"}

\* Segment k starts at the point of the cut edge of element e and ends at
\* the point at such a corner.
FromCutToCorner(k, e) ==
    /\ Stored(k)
    /\ ~LostPoint(segments[k].start + 1)
    /\ ~LostPoint(segments[k].end + 1)
    /\ \E j \in 0 .. 3 : FoundCut(e, j) /\ Coincide(StartOf(k), EdgePoint(e, j))
    /\ \E c \in OutsideNeighbourCorners(e) : EndOf(k) = NodeCoord(ElementNodes(e)[c + 1])

\* Segment k lies along an edge of element e whose two nodes are BOUNDARY.
AlongBoundaryEdge(k, e) ==
    /\ Stored(k)
    /\ \E j \in 0 .. 3 :
          /\ nodes[ElementEdge(e, j)[1]].status = "BOUNDARY"
          /\ nodes[ElementEdge(e, j)[2]].status = "BOUNDARY"
          /\ {StartOf(k), EndOf(k)} =
                {NodeCoord(ElementEdge(e, j)[1]), NodeCoord(ElementEdge(e, j)[2])}

\* Element e has exactly one segment from its cut point to a corner, and its
\* other segments lie along edges between BOUNDARY nodes.
OneSegmentToCorner(e) ==
    /\ Cardinality({k \in SegmentsOf(e) : FromCutToCorner(k, e)}) = 1
    /\ \A k \in SegmentsOf(e) : FromCutToCorner(k, e) \/ AlongBoundaryEdge(k, e)

\* C19: in an element with exactly one cut edge discretise emits exactly one
\* segment from the interpolated point to the point at a BOUNDARY corner that
\* has an OUTSIDE neighbour in the element, besides any segment along an edge
\* whose two nodes are both BOUNDARY.
C19_OneCutSegment ==
    Discretised => \A e \in OneCutElements : OneSegmentToCorner(e)

\* C19 witness: one cut edge was counted in an element that has no BOUNDARY
\* corner, and the pass, which fitted the storage, left the element without
\* a segment.
C19_Witness ==
    /\ Discretised
    /\ ~lastIsTarget
    /\ nPoints <= StorageSize
    /\ \E e \in OneCutElements :
          /\ BoundaryCornersOf(e) = {}
          /\ elements[e].boundarySegments = <<>>

\* The case of one cut edge is as claimed when every edge is looked at and
\* the pass fits the storage.
OneCutWhenAllExamined ==
    (/\ Discretised
     /\ lastIsTarget \/ Len(narrowBand) = nNodes
     /\ nPoints <= StorageSize
     /\ nSegments <= StorageSize) => \A e \in OneCutElements : OneSegmentToCorner(e)

\* An element with one cut edge counted and its segment emitted as claimed.
OneCutAsClaimed ==
    Discretised /\ \E e \in OneCutElements : OneSegmentToCorner(e)

-----------------------------------------------------------------------------
(* Properties of the segment records *)

\* Coordinate c lies on an edge or at a corner of element e.
OnPerimeter(c, e) ==
    LET lo == NodeCoord(ElementNodes(e)[1])
        hi == NodeCoord(ElementNodes(e)[3])
    IN /\ lo.x <= c.x /\ c.x <= hi.x
       /\ lo.y <= c.y /\ c.y <= hi.y
       /\ c.x \in {lo.x, hi.x} \/ c.y \in {lo.y, hi.y}

\* Coordinate c is within the tolerance of isAdded of the perimeter of e.
NearPerimeter(c, e) ==
    \E dx, dy \in (1 - Eps) .. (Eps - 1) : OnPerimeter([x |-> c.x + dx, y |-> c.y + dy], e)

\* The number of entries of the segment list of element e that hold the
\* index of segment k.
TimesListed(k, e) ==
    Cardinality({j \in 1 .. Len(elements[e].boundarySegments) :
                    elements[e].boundarySegments[j] = k - 1})

\* Segment k is listed once, by the element it records, and by no other.
ListedOnce(k) ==
    \A e \in ElementSet : TimesListed(k, e) = (IF e = segments[k].element THEN 1 ELSE 0)

\* C20: after discretise both endpoints of every segment lie on the perimeter
\* (an edge or a corner) of the element recorded as segment.element, and the
\* index of the segment appears exactly once in the boundarySegments list of
\* that element and in the list of no other element.
C20_SegmentInItsElement ==
    Discretised =>
        \A k \in 1 .. Len(segments) :
            /\ Stored(k)
            /\ OnPerimeter(StartOf(k), segments[k].element)
            /\ OnPerimeter(EndOf(k), segments[k].element)
            /\ ListedOnce(k)

\* C20 witness: a pass found more points than the storage holds, and a
\* segment ends at a point beyond the storage whose record, read back, is
\* not on the perimeter of the segment's element.
C20_Witness ==
    /\ Discretised
    /\ nPoints > StorageSize
    /\ \E k \in 1 .. Len(segments) :
          /\ Stored(k)
          /\ LostPoint(segments[k].end + 1)
          /\ ~OnPerimeter(EndOf(k), segments[k].element)

\* When the pass fits the storage and every edge is looked at, each segment
\* is listed once by its element and ends within the tolerance of isAdded of
\* that element's perimeter.
SegmentInItsElementWhenFits ==
    (/\ Discretised
     /\ lastIsTarget \/ Len(narrowBand) = nNodes
     /\ nPoints <= StorageSize
     /\ nSegments <= StorageSize) =>
        \A k \in 1 .. Len(segments) :
            /\ Stored(k)
            /\ NearPerimeter(StartOf(k), segments[k].element)
            /\ NearPerimeter(EndOf(k), segments[k].element)
            /\ ListedOnce(k)

\* The same with the endpoints exactly on the perimeter.
SegmentExactlyInItsElementWhenFits ==
    (/\ Discretised
     /\ lastIsTarget \/ Len(narrowBand) = nNodes
     /\ nPoints <= StorageSize
     /\ nSegments <= StorageSize) =>
        \A k \in 1 .. Len(segments) :
            /\ Stored(k)
            /\ OnPerimeter(StartOf(k), segments[k].element)
            /\ OnPerimeter(EndOf(k), segments[k].element)
            /\ ListedOnce(k)

-----------------------------------------------------------------------------
(* Properties of the set of segments *)

\* The unordered pair of point indices that segment k joins.
EndPoints(k) == {segments[k].start, segments[k].end}

\* The segments on record that lie along the edge between nodes n1 and n2.
SegmentsAlong(n1, n2) ==
    {k \in 1 .. Len(segments) :
        /\ Stored(k)
        /\ {StartOf(k), EndOf(k)} = {NodeCoord(n1), NodeCoord(n2)}}

\* The edges shared by two elements neither of which is OUTSIDE, with both
\* nodes BOUNDARY.
SharedBoundaryEdges ==
    {ed \in ElementEdges :
        /\ nodes[ed[1]].status = "BOUNDARY"
        /\ nodes[ed[2]].status = "BOUNDARY"
        /\ \E e1, e2 \in ElementSet :
              /\ e1 # e2
              /\ elements[e1].status # "OUTSIDE"
              /\ elements[e2].status # "OUTSIDE"
              /\ \E j1, j2 \in 0 .. 3 :
                    /\ {ElementEdge(e1, j1)[1], ElementEdge(e1, j1)[2]} = {ed[1], ed[2]}
                    /\ {ElementEdge(e2, j2)[1], ElementEdge(e2, j2)[2]} = {ed[1], ed[2]}}

\* C21: after discretise no two distinct segments join the same unordered
\* pair of points; an edge whose two nodes are both BOUNDARY yields exactly
\* one segment, also when both elements that share the edge are not OUTSIDE.
C21_NoDuplicateSegment ==
    Discretised =>
        /\ \A k1, k2 \in 1 .. Len(segments) : k1 # k2 => EndPoints(k1) # EndPoints(k2)
        /\ \A ed \in SharedBoundaryEdges : Cardinality(SegmentsAlong(ed[1], ed[2])) = 1

\* C21 witness: a pass that fitted the storage, with the whole mesh in the
\* narrow band, left two segments along one shared edge between BOUNDARY
\* nodes, and the total length counts both.
C21_Witness ==
    /\ Discretised
    /\ Len(narrowBand) = nNodes
    /\ nPoints <= StorageSize
    /\ nSegments = 2
    /\ \E ed \in SharedBoundaryEdges : Cardinality(SegmentsAlong(ed[1], ed[2])) = 2
    /\ length = 2 * segments[1].length

-----------------------------------------------------------------------------
(* Properties of the point adjacency *)

\* The number of entries of the sequence s that equal v.
Occurrences(s, v) == Cardinality({j \in 1 .. Len(s) : s[j] = v})

\* The segments on record that join the points with indices p and q.
SegmentsJoining(p, q) == {k \in 1 .. Len(segments) : EndPoints(k) = {p, q}}

\* The segments on record with the point of index p as an endpoint.
SegmentsAt(p) == {k \in 1 .. Len(segments) : p \in EndPoints(k)}

\* The adjacency of the point with index p matches the segments.
AdjacencyMatches(p) ==
    /\ \A q \in 0 .. (Len(points) - 1) :
          /\ Occurrences(points[p + 1].neighbours, q) = Cardinality(SegmentsJoining(p, q))
          /\ Occurrences(points[q + 1].neighbours, p) = Occurrences(points[p + 1].neighbours, q)
    /\ Len(points[p + 1].neighbours) = Cardinality(SegmentsAt(p))

\* C22: after discretise the point adjacency is symmetric and matches the
\* segments: q is among p's neighbours as often as there are segments joining
\* p and q, p is as often among q's neighbours, and the neighbour count of
\* each point equals the number of its incident segments.
C22_AdjacencyMatchesSegments ==
    Discretised => \A p \in 0 .. (Len(points) - 1) : AdjacencyMatches(p)

\* C22 witness: a pass that fitted the storage, with the whole mesh in the
\* narrow band, left a segment from a point to itself, so that the point is
\* twice its own neighbour.
C22_Witness ==
    /\ Discretised
    /\ Len(narrowBand) = nNodes
    /\ nPoints <= StorageSize
    /\ nSegments <= StorageSize
    /\ \E k \in 1 .. Len(segments) :
          /\ segments[k].start = segments[k].end
          /\ Occurrences(points[segments[k].start + 1].neighbours, segments[k].start) = 2

\* The adjacency matches the segments whenever the pass fits the storage and
\* no segment joins a point to itself.
AdjacencyMatchesWithoutLoops ==
    (/\ Discretised
     /\ nPoints <= StorageSize
     /\ nSegments <= StorageSize
     /\ \A k \in 1 .. Len(segments) : segments[k].start # segments[k].end)
        => \A p \in 0 .. (Len(points) - 1) : AdjacencyMatches(p)

\* A pass with segments and no segment from a point to itself.
AdjacencyMatchesReached ==
    /\ Discretised
    /\ nSegments >= 2
    /\ nSegments <= StorageSize
    /\ nPoints <= StorageSize
    /\ \A k \in 1 .. Len(segments) : segments[k].start # segments[k].end
    /\ \A p \in 0 .. (Len(points) - 1) : AdjacencyMatches(p)

-----------------------------------------------------------------------------
(* Properties of the area fractions *)

\* The total a further call of computeAreaFractions returns in this state.
TotalAgain == SumAreas([e \in ElementSet |-> ElementArea(e)], 0)

\* The sum of the area fractions on record.
TotalOnRecord == SumAreas([e \in ElementSet |-> elements[e].area], 0)

\* C23: after computeAreaFractions the area fraction of every element lies
\* in [0, 1], the total in Boundary::area is the sum of the area fractions of
\* the elements, and a further call without a discretise in between returns
\* the same total.
C23_AreaFractions ==
    pc = "areas" =>
        /\ \A e \in ElementSet : 0 <= elements[e].area /\ elements[e].area <= Grid * Grid
        /\ area = TotalOnRecord
        /\ TotalAgain = area

\* C23 witness: the areas were computed after a pass that found more points
\* than the storage holds, and the area fraction of a cut element is
\* negative.
C23_Witness ==
    /\ pc = "areas"
    /\ Len(narrowBand) = nNodes
    /\ nPoints > StorageSize
    /\ \E e \in ElementSet : elements[e].area < 0

\* The areas were computed for a pass that fitted the storage and cut an
\* element, and the total is neither empty nor the whole mesh.
AreaFractionsReached ==
    /\ pc = "areas"
    /\ nPoints <= StorageSize
    /\ \E e \in ElementSet : 0 < elements[e].area /\ elements[e].area < Grid * Grid
    /\ 0 < area /\ area < nElements * Grid * Grid

\* The areas are as claimed whenever every edge was looked at and the pass
\* fitted the storage.
AreaFractionsWhenFits ==
    (/\ pc = "areas"
     /\ lastIsTarget \/ Len(narrowBand) = nNodes
     /\ nPoints <= StorageSize
     /\ nSegments <= StorageSize) =>
        /\ \A e \in ElementSet : 0 <= elements[e].area /\ elements[e].area <= Grid * Grid
        /\ area = TotalOnRecord
        /\ TotalAgain = area

\* The total is the sum on record and is returned again by a further call,
\* in every state after computeAreaFractions.
TotalIsSumAndRepeats ==
    pc = "areas" => (area = TotalOnRecord /\ TotalAgain = area)

-----------------------------------------------------------------------------
(* Properties of successive passes *)

\* What a pass that ends as b leaves in the boundary and in the mesh: the
\* points and segments after the final resize and computePointLengths, the
\* counts, the total length, and the status and the list of every node and
\* element.
Outcome(b) ==
    LET segs == Elements(b.segments, b.nSegments, StorageSize, ZeroSegment)
        pts == Elements(b.points, b.nPoints, StorageSize, ZeroPoint)
    IN [points |-> computePointLengths(pts, segs),
        segments |-> segs,
        nPoints |-> b.nPoints,
        nSegments |-> b.nSegments,
        length |-> b.length,
        nodes |-> b.nodes,
        elements |-> [e \in ElementSet |->
                        [status |-> b.elements[e].status,
                         boundarySegments |-> b.elements[e].boundarySegments]]]

\* The same of the current state.
OnRecord ==
    [points |-> points,
     segments |-> segments,
     nPoints |-> nPoints,
     nSegments |-> nSegments,
     length |-> length,
     nodes |-> nodes,
     elements |-> [e \in ElementSet |->
                     [status |-> elements[e].status,
                      boundarySegments |-> elements[e].boundarySegments]]]

\* What discretise on the last field leaves when it is the first call on a
\* new boundary, with `stale` read from an entry of boundaryPoints that was
\* never written.
Alone(stale) == Outcome(PassFrom(<<>>, <<>>, LastField, lastIsTarget, stale))

\* The values the last pass can have read from such an entry.
StaleChoices ==
    IF ReadsUninitialised(LastField, lastIsTarget) THEN StaleValues ELSE {0}

\* C24: a discretise pass leaves no data from an earlier pass: after a pass
\* on a field A followed by a pass on a field B, the points, the segments,
\* the total length and the statuses and lists of the nodes and elements are
\* those that discretise on B alone leaves.
C24_NoLeftover ==
    (pc = "discretised" /\ calls = 2) => \A stale \in StaleChoices : OnRecord = Alone(stale)

\* C24 witness: the second of two passes read an entry of boundaryPoints that
\* was never written, and what it left is not what the pass alone leaves
\* with another value in that entry.
C24_Witness ==
    /\ pc = "discretised"
    /\ calls = 2
    /\ ReadsUninitialised(LastField, lastIsTarget)
    /\ \E stale \in StaleValues : OnRecord # Alone(stale)

\* A pass in which no such entry is read leaves what it leaves alone,
\* whatever the pass before it worked on.
NoLeftoverWhenDefined ==
    (pc = "discretised" /\ calls = 2 /\ ~ReadsUninitialised(LastField, lastIsTarget))
        => OnRecord = Alone(0)

\* A pass on the signed distance, the second call, on a boundary whose target
\* is another field.
AfterTargetReached ==
    /\ pc = "discretised"
    /\ calls = 2
    /\ ~lastIsTarget
    /\ DOMAIN target = NodeSet
    /\ target # signedDistance
    /\ ~ReadsUninitialised(signedDistance, FALSE)
    /\ nPoints > 0
    /\ OnRecord = Alone(0)

-----------------------------------------------------------------------------
(* Properties of the gradient *)

\* The velocity of point i before the clamp lies outside its limits.
OutsideLimits(i) ==
    Unclamped(i) < points[i].negativeLimit \/ Unclamped(i) > points[i].positiveLimit

\* Point i is pinned: both its limits are 0.
Pinned(i) == points[i].negativeLimit = 0 /\ points[i].positiveLimit = 0

\* The sum over the points of `among` of the product of the sensitivities
\* for the function of the last callback and for lambda j.
SumOver(among, j) ==
    LET f[i \in 0 .. nPoints] ==
            IF i = 0 THEN 0
            ELSE f[i - 1] + (IF i \in among
                             THEN points[i].sensitivities[functionIndex + 1]
                                    * points[i].sensitivities[j]
                             ELSE 0)
    IN f[nPoints]

\* C25: in the gradient computation a point whose velocity before the clamp
\* lies outside its limits is flagged and contributes zero to the gradient
\* of every function with respect to every lambda, a pinned point included;
\* only the points whose velocity is not clamped contribute.
C25_ClampedContributeZero ==
    gradient # <<>> =>
        /\ \A i \in 1 .. nPoints : OutsideLimits(i) => isSideLimit[i]
        /\ \A j \in 1 .. 2 :
              gradient[j] =
                 SumOver({i \in 1 .. nPoints : ~OutsideLimits(i) /\ ~Pinned(i)}, j)

\* C25 witness: a gradient was computed over two points, one pinned with a
\* velocity before the clamp that is not 0 and with sensitivities that are
\* not 0, the other within its limits, and the gradient is that of the other.
C25_Witness ==
    /\ gradient # <<>>
    /\ nPoints = 2
    /\ \E i, k \in 1 .. nPoints :
          /\ Pinned(i)
          /\ OutsideLimits(i)
          /\ points[i].sensitivities[functionIndex + 1] # 0
          /\ ~Pinned(k)
          /\ ~OutsideLimits(k)
          /\ \E j \in 1 .. 2 :
                /\ points[i].sensitivities[j] # 0
                /\ gradient[j] # 0
                /\ gradient[j] = points[k].sensitivities[functionIndex + 1]
                                    * points[k].sensitivities[j]

\* A gradient was computed with a pinned point whose velocity before the
\* clamp is exactly 0 and whose sensitivities are not 0: the point is not
\* flagged.
PinnedWithinLimits ==
    /\ gradient # <<>>
    /\ \E i \in 1 .. nPoints :
          /\ Pinned(i)
          /\ ~isSideLimit[i]
          /\ points[i].sensitivities[functionIndex + 1] # 0

-----------------------------------------------------------------------------
(* Properties of the movement limits *)

\* C26: for every boundary point that discretise makes the negative limit is
\* not below -moveLimit, the adjustment near the domain edge only tightening
\* it, and the positive limit equals moveLimit.
C26_LimitsWithinMoveLimit ==
    Discretised =>
        \A i \in 1 .. Len(points) :
            ~LostPoint(i) =>
                /\ 0 - moveLimit <= points[i].negativeLimit
                /\ points[i].positiveLimit = moveLimit

\* C26 witness: a pass in which nothing undefined happened, under a move
\* limit of a quarter of a grid spacing, made a point off the domain edge
\* whose negative limit is below minus the move limit.
C26_Witness ==
    /\ PassWellDefined
    /\ moveLimit = Grid \div 4
    /\ \E i \in 1 .. nPoints :
          /\ ~points[i].isDomain
          /\ points[i].negativeLimit < 0 - moveLimit
          /\ points[i].positiveLimit = moveLimit

\* The positive limit of every point is the move limit, and the negative one
\* is minus the move limit or minus the distance to the nearest domain edge.
LimitsAsInitialised ==
    Discretised =>
        \A i \in 1 .. Len(points) :
            ~LostPoint(i) =>
                /\ points[i].positiveLimit = moveLimit
                /\ points[i].negativeLimit = NegativeLimitFor(points[i].coord)

-----------------------------------------------------------------------------
(* Normal vectors on a mesh with two neighbouring nodes off the domain     *)
(* boundary: nodes 5 = (1,1) and 6 = (2,1) of the mesh of 3 by 2 elements. *)

\* The sequence s in reverse order.
Reverse(s) == [k \in 1 .. Len(s) |-> s[Len(s) + 1 - k]]

\* The fields Init draws: negative everywhere but at node 5, in the middle,
\* at its right neighbour 6 and at the node 9 above it.
NormalFields ==
    {[n \in NodeSet |-> IF n = 5 THEN v5
                        ELSE IF n = 6 THEN v6
                        ELSE IF n = 9 THEN v9
                        ELSE 0 - 3 * Grid] :
        v5 \in {0, Eps + 1, 4 * Grid},
        v6 \in {0 - 4 * Grid, 0 - 3 * Grid, 0 - Grid},
        v9 \in {0 - 3 * Grid, 4 * Grid}}

\* The state after construction on that mesh; the narrow band lists its
\* nodes in ascending or in descending order.
InitNormals ==
    /\ width = 3
    /\ height = 2
    /\ signedDistance \in NormalFields
    /\ target = <<>>
    /\ \E inactive \in {{}, {6}} :
          narrowBand \in {BandList(inactive), Reverse(BandList(inactive))}
    /\ moveLimit = Grid \div 2
    /\ InitMesh
    /\ InitBoundary

NextNormals ==
    \/ Discretise(FALSE)
    \/ ComputeAreaFractions
    \/ ComputeNormalVectors

SpecNormals == InitNormals /\ [][NextNormals]_vars

\* The nodes that give the point of index p a part of its normal: active, off
\* the domain boundary, with the point in their list.
Contributors(p) ==
    {n \in NodeSet :
        /\ IsActive(n)
        /\ ~NodeIsDomain(n)
        /\ \E j \in 1 .. Len(nodes[n].boundaryPoints) : nodes[n].boundaryPoints[j] = p}

\* The squared distance from the point of index p to node n.
SquaredDistance(p, n) ==
    LET dx == NodeCoord(n).x - points[p + 1].coord.x
        dy == NodeCoord(n).y - points[p + 1].coord.y
    IN dx * dx + dy * dy

\* The nodes among them that the point of index p coincides with.
CoincidentNodes(p) == {n \in Contributors(p) : IsCoincident(SquaredDistance(p, n))}

\* The sum over the nodes of S of component c of the unit gradient over the
\* squared distance to the point of index p, and the sum of the weights.
RECURSIVE WeightedSum(_, _, _)
WeightedSum(S, p, c) ==
    IF S = {} THEN 0
    ELSE LET n == CHOOSE m \in S : TRUE
         IN NodeNormal(n)[c] * InverseSquare(SquaredDistance(p, n))
               + WeightedSum(S \ {n}, p, c)

RECURSIVE WeightSum(_, _)
WeightSum(S, p) ==
    IF S = {} THEN 0
    ELSE LET n == CHOOSE m \in S : TRUE
         IN InverseSquare(SquaredDistance(p, n)) + WeightSum(S \ {n}, p)

\* The average of the unit gradients of the nodes of S, each weighted by the
\* inverse squared distance to the point of index p, brought to unit length.
WeightedAverage(S, p) ==
    UnitVector(SignedRoundDiv(WeightedSum(S, p, 1), WeightSum(S, p)),
               SignedRoundDiv(WeightedSum(S, p, 2), WeightSum(S, p)))

\* Two vectors that differ by at most one unit of rounding in each component.
SameVector(a, b) ==
    /\ a[1] # NaN /\ a[2] # NaN /\ b[1] # NaN /\ b[2] # NaN
    /\ Abs(a[1] - b[1]) <= 1
    /\ Abs(a[2] - b[2]) <= 1

\* The normal of the point of index p is as claimed.
NormalAsClaimed(p) ==
    IF CoincidentNodes(p) # {}
    THEN \A n \in CoincidentNodes(p) : SameVector(points[p + 1].normal, NodeNormal(n))
    ELSE /\ Contributors(p) # {}
         /\ \A n \in Contributors(p) : NodeNormal(n)[1] # NaN
         /\ SameVector(points[p + 1].normal, WeightedAverage(Contributors(p), p))

\* C27: after computeNormalVectors a point that coincides with an active
\* node off the domain boundary has exactly that node's unit gradient as its
\* normal, whatever the order of the narrow band and whatever other nodes
\* added before or after; every other point off the domain boundary has the
\* average of the unit gradients of its adjacent nodes, weighted by the
\* inverse squared distance and brought to unit length.
C27_NormalFromNodes ==
    NormalsComputed =>
        \A p \in 0 .. (Len(points) - 1) :
            (~LostPoint(p + 1) /\ ~points[p + 1].isDomain) => NormalAsClaimed(p)

\* C27 witness: after a pass in which nothing undefined happened, a point off
\* the domain boundary lies between two active nodes off the domain
\* boundary, the gradient is zero at one of them, and the normal of the
\* point is not a number.
C27_Witness ==
    /\ NormalsComputed
    /\ PassWellDefined
    /\ \E p \in 0 .. (nPoints - 1) :
          /\ ~points[p + 1].isDomain
          /\ Cardinality(Contributors(p)) = 2
          /\ CoincidentNodes(p) = {}
          /\ \E n \in Contributors(p) : NodeNormal(n) = <<NaN, NaN>>
          /\ points[p + 1].normal = <<NaN, NaN>>

\* The normals are as claimed at every point off the domain boundary whose
\* contributing nodes all have a gradient that is not zero.
NormalFromNodesWhenDefined ==
    NormalsComputed =>
        \A p \in 0 .. (Len(points) - 1) :
            (/\ ~LostPoint(p + 1)
             /\ ~points[p + 1].isDomain
             /\ Contributors(p) # {}
             /\ \A n \in Contributors(p) : NodeNormal(n)[1] # NaN) => NormalAsClaimed(p)

\* A point within the tolerance of one of two contributing nodes has that
\* node's unit gradient, the narrow band being in descending order.
CoincidentReached ==
    /\ NormalsComputed
    /\ PassWellDefined
    /\ narrowBand[1] > narrowBand[2]
    /\ \E p \in 0 .. (nPoints - 1) :
          /\ Cardinality(Contributors(p)) = 2
          /\ Cardinality(CoincidentNodes(p)) = 1
          /\ \A n \in Contributors(p) : NodeNormal(n)[1] # NaN
          /\ \E n, m \in Contributors(p) : NodeNormal(n) # NodeNormal(m)
          /\ NormalAsClaimed(p)

\* A point between two contributing nodes, coincident with neither, has the
\* weighted average of their unit gradients.
AverageReached ==
    /\ NormalsComputed
    /\ PassWellDefined
    /\ \E p \in 0 .. (nPoints - 1) :
          /\ Cardinality(Contributors(p)) = 2
          /\ CoincidentNodes(p) = {}
          /\ \E n, m \in Contributors(p) : NodeNormal(n) # NodeNormal(m)
          /\ NormalAsClaimed(p)

-----------------------------------------------------------------------------
(* Properties of the connection of the points *)

\* C28: after discretise every boundary point is an endpoint of at least one
\* segment and so has an integral length above zero; no point that was made
\* is left unconnected, in target mode and with any narrow band.
C28_EveryPointConnected ==
    Discretised =>
        \A p \in 0 .. (nPoints - 1) :
            /\ p < Len(points)
            /\ SegmentsAt(p) # {}
            /\ points[p + 1].length > 0

\* C28 witness: a pass on the signed distance that fitted the storage made a
\* point on a cut edge, and no segment starts or ends at it.
C28_Witness ==
    /\ Discretised
    /\ ~lastIsTarget
    /\ nPoints <= StorageSize
    /\ nSegments <= StorageSize
    /\ \E p \in 0 .. (nPoints - 1) :
          /\ SegmentsAt(p) = {}
          /\ points[p + 1].length = 0
          /\ \E e \in OneCutElements, j \in 0 .. 3 :
                FoundCut(e, j) /\ Coincide(points[p + 1].coord, EdgePoint(e, j))

\* Every point is connected when every edge is looked at and the pass fits
\* the storage, and its length is above zero unless all its segments have
\* length zero.
ConnectedWhenAllExamined ==
    (/\ Discretised
     /\ lastIsTarget \/ Len(narrowBand) = nNodes
     /\ nPoints <= StorageSize
     /\ nSegments <= StorageSize) =>
        \A p \in 0 .. (nPoints - 1) :
            /\ SegmentsAt(p) # {}
            /\ points[p + 1].length > 0 \/ \A k \in SegmentsAt(p) : segments[k].length = 0

-----------------------------------------------------------------------------
(***************************************************************************)
(* InputOutput.  A file name is a sequence of strings.  A text file is a   *)
(* sequence of lines and a line a sequence of numbers; a VTK file is a     *)
(* record of its header and of its sections of data.                       *)
(***************************************************************************)

\* The variables an InputOutput call leaves alone.
ioFrame == <<width, height, target, narrowBand, moveLimit, nodes, elements,
             points, segments, nPoints, nSegments, length, area, nHoles,
             calls, lastIsTarget, vtkDefaults>>

\* A double written with "%lf": six decimals, so the nearest multiple of 1e-6.
PrintLf(v) == ((2 * v + Eps) \div (2 * Eps)) * Eps

\* The decimal digits of an unsigned number, as the stream writes them.
RECURSIVE Digits(_)
Digits(n) ==
    LET digit == <<"0", "1", "2", "3", "4", "5", "6", "7", "8", "9">>
    IN  IF n < 10 THEN <<digit[n + 1]>>
        ELSE Append(Digits(n \div 10), digit[(n % 10) + 1])

\* width(w), fill('0') and std::right: zeros in front, up to w characters.
RECURSIVE Padded(_, _)
Padded(s, w) == IF Len(s) >= w THEN s ELSE Padded(<<"0">> \o s, w)

\* The name the datapoint overloads build, with the extension ext.
NumberedName(outputDirectory, datapoint, ext) ==
    (IF outputDirectory # "" THEN <<outputDirectory, "/">> ELSE <<>>)
        \o <<"level-set_">> \o Padded(Digits(datapoint), 4) \o <<ext>>

\* The directories that exist; fopen(name, "w") fails in any other.
ExistingDirectories == {"out"}

CanOpenForWriting(fileName) ==
    (Len(fileName) >= 2 /\ fileName[2] = "/")
        => fileName[1] \in ExistingDirectories

\* levelSet.velocity and levelSet.gradient, which no call here has computed.
NodeVelocity(n) == 0

NodeGradient(n) == 0

\* What the file-name overload of saveLevelSetVTK writes.
VTKContent(isVelocity, isGradient) ==
    [dimensions |-> <<1 + width, 1 + height, 1>>,
     xCoordinates |-> [i \in 1 .. (1 + width) |-> i - 1],
     yCoordinates |-> [i \in 1 .. (1 + height) |-> i - 1],
     pointData |-> nNodes,
     sections |->
        <<[name |-> "distance",
           values |-> [i \in 1 .. nNodes |-> PrintLf(signedDistance[i - 1])]]>>
        \o (IF isVelocity
            THEN <<[name |-> "velocity",
                    values |-> [i \in 1 .. nNodes |-> PrintLf(NodeVelocity(i - 1))]]>>
            ELSE <<>>)
        \o (IF isGradient
            THEN <<[name |-> "gradient",
                    values |-> [i \in 1 .. nNodes |-> PrintLf(NodeGradient(i - 1))]]>>
            ELSE <<>>)]

\* The file-name overload, as a step from the call record call.
WriteVTK(fileName, isVelocity, isGradient, call) ==
    /\ lastCall' = call
    /\ written' = {}
    /\ IF CanOpenForWriting(fileName)
       THEN /\ files' = (fileName :> VTKContent(isVelocity, isGradient)) @@ files
            /\ pc' = "saved"
       ELSE /\ files' = files
            /\ pc' = "exited"
    /\ UNCHANGED <<signedDistance, ioFrame, optimiseVars>>

saveLevelSetVTK(fileName, isVelocity, isGradient) ==
    /\ pc \in {"constructed", "loaded"}
    /\ WriteVTK(fileName, isVelocity, isGradient,
                [op |-> "saveLevelSetVTK(fileName)", fileName |-> fileName,
                 isVelocity |-> isVelocity, isGradient |-> isGradient])

\* The datapoint overload: it builds the name and calls the file-name
\* overload with the name and the level set, so with the default flags.
saveLevelSetVTKNumbered(datapoint, isVelocity, isGradient, outputDirectory) ==
    /\ pc \in {"constructed", "loaded"}
    /\ WriteVTK(NumberedName(outputDirectory, datapoint, ".vtk"),
                vtkDefaults[1], vtkDefaults[2],
                [op |-> "saveLevelSetVTK(datapoint)", datapoint |-> datapoint,
                 isVelocity |-> isVelocity, isGradient |-> isGradient,
                 outputDirectory |-> outputDirectory])

\* The lines saveLevelSetTXT writes: x and y first when isXY.
TXTLines(sd, isXY) ==
    [i \in 1 .. nNodes |->
        (IF isXY
         THEN <<PrintLf(((i - 1) % (width + 1)) * Grid),
                PrintLf(((i - 1) \div (width + 1)) * Grid)>>
         ELSE <<>>)
        \o <<PrintLf(sd[i - 1]), PrintLf(NodeVelocity(i - 1)),
             PrintLf(NodeGradient(i - 1))>>]

saveLevelSetTXT(fileName, isXY) ==
    /\ pc = "constructed"
    /\ lastCall' = [op |-> "saveLevelSetTXT", fileName |-> fileName,
                    isXY |-> isXY]
    /\ written' = {}
    /\ IF CanOpenForWriting(fileName)
       THEN /\ files' = (fileName :> TXTLines(signedDistance, isXY)) @@ files
            /\ pc' = "constructed"
       ELSE /\ files' = files
            /\ pc' = "exited"
    /\ UNCHANGED <<signedDistance, ioFrame, optimiseVars>>

\* The numbers of a text file in reading order: operator>> skips line ends.
RECURSIVE Tokens(_)
Tokens(lines) ==
    IF lines = <<>> THEN <<>> ELSE Head(lines) \o Tokens(Tail(lines))

\* The numbers one turn of the reading loop takes, and the place among them
\* of the one that goes to signedDistance[node].
RecordSize(isXY) == IF isXY THEN 5 ELSE 3

DistancePlace(isXY) == IF isXY THEN 3 ELSE 1

\* The number of turns in which signedDistance[node] is assigned: the turn
\* whose extraction fails later on has assigned it already.
Assigned(tokens, isXY) ==
    IF Len(tokens) < DistancePlace(isXY) THEN 0
    ELSE (Len(tokens) - DistancePlace(isXY)) \div RecordSize(isXY) + 1

\* The two checks of loadLevelSetTXT.
Opens(fileName) == fileName \in DOMAIN files

LineCountMatches(fileName) == Len(files[fileName]) = nNodes

\* A write past the end of signedDistance is undefined: the run is killed,
\* or it goes on with the memory behind the array changed.
loadLevelSetTXT(fileName, isXY) ==
    /\ pc = "constructed"
    /\ lastCall' = [op |-> "loadLevelSetTXT", fileName |-> fileName,
                    isXY |-> isXY, levelSet |-> signedDistance]
    /\ files' = files
    /\ UNCHANGED <<ioFrame, optimiseVars>>
    /\ IF ~Opens(fileName) \/ ~LineCountMatches(fileName)
       THEN /\ pc' = "exited"
            /\ written' = {}
            /\ signedDistance' = signedDistance
       ELSE LET tokens == Tokens(files[fileName])
                count == Assigned(tokens, isXY)
            IN  /\ written' = 0 .. (count - 1)
                /\ signedDistance' =
                      [n \in NodeSet |->
                          IF n < count
                          THEN tokens[n * RecordSize(isXY) + DistancePlace(isXY)]
                          ELSE signedDistance[n]]
                /\ IF count <= nNodes THEN pc' = "loaded"
                   ELSE pc' \in {"loaded", "crashed"}

\* The datapoints, directories and names of the calls.
Datapoints == {7, 12345}

OutputDirectories == {"", "out", "absent"}

VTKNames == {<<"named.vtk">>, <<"absent", "/", "named.vtk">>}

TXTNames == {<<"in.txt">>, <<"out.txt">>, <<"none.txt">>}

\* The level sets of the one-element mesh that are saved and loaded.
IOFields ==
    {[n \in 0 .. 3 |-> Grid],
     [n \in 0 .. 3 |-> IF n = 0 THEN 3 ELSE 0 - Grid]}

\* The text files found on disk at the start, under the name in.txt: none,
\* one of either layout for this mesh, one with a line short, one with a
\* single number on each line.
FoundFiles ==
    LET sd == [n \in 0 .. 3 |-> (n - 1) * Grid]
        in == <<"in.txt">>
    IN  {<<>>,
         in :> [i \in 1 .. 4 |-> <<sd[i - 1], 0, 0>>],
         in :> [i \in 1 .. 4 |-> <<((i - 1) % 2) * Grid, ((i - 1) \div 2) * Grid,
                                    sd[i - 1], 0, 0>>],
         in :> [i \in 1 .. 3 |-> <<sd[i - 1], 0, 0>>],
         in :> [i \in 1 .. 4 |-> <<sd[i - 1]>>]}

\* The state after construction on the one-element mesh.  The defaults of
\* isVelocity and isGradient are those of the declaration in InputOutput.h.
InitIO ==
    /\ width = 1
    /\ height = 1
    /\ signedDistance \in IOFields
    /\ target = <<>>
    /\ narrowBand = BandList({})
    /\ moveLimit = Grid \div 2
    /\ InitMesh
    /\ points = <<>>
    /\ segments = <<>>
    /\ nPoints = 0
    /\ nSegments = 0
    /\ length = 0
    /\ area = 0
    /\ nHoles = 0
    /\ pc = "constructed"
    /\ calls = 0
    /\ lastIsTarget = FALSE
    /\ lambda = <<>>
    /\ velocities = <<>>
    /\ isSideLimit = <<>>
    /\ gradient = <<>>
    /\ functionIndex = 0
    /\ files \in FoundFiles
    /\ written = {}
    /\ vtkDefaults \in BOOLEAN \X BOOLEAN
    /\ lastCall = [op |-> "none"]

NextIO ==
    \/ \E datapoint \in Datapoints, isVelocity \in BOOLEAN,
          isGradient \in BOOLEAN, outputDirectory \in OutputDirectories :
          saveLevelSetVTKNumbered(datapoint, isVelocity, isGradient,
                                  outputDirectory)
    \/ \E fileName \in VTKNames, isVelocity \in BOOLEAN, isGradient \in BOOLEAN :
          saveLevelSetVTK(fileName, isVelocity, isGradient)
    \/ \E fileName \in TXTNames \ {<<"none.txt">>}, isXY \in BOOLEAN :
          saveLevelSetTXT(fileName, isXY)
    \/ \E fileName \in TXTNames, isXY \in BOOLEAN :
          loadLevelSetTXT(fileName, isXY)

SpecIO == InitIO /\ [][NextIO]_vars

\* The name the numbered overload is to write to.
ClaimedName(outputDirectory, datapoint) ==
    NumberedName(outputDirectory, datapoint, ".vtk")

\* The last call was the numbered overload and it returned.
NumberedSaved ==
    /\ lastCall.op = "saveLevelSetVTK(datapoint)"
    /\ pc = "saved"

\* C29: after the datapoint-numbered overload of saveLevelSetVTK, the file
\* <outputDirectory>/level-set_<datapoint, zero-padded to 4 digits>.vtk holds
\* what the file-name overload writes with the same flags: the velocity
\* section if and only if isVelocity, the gradient section if and only if
\* isGradient.
C29_NumberedSavesAsNamed ==
    NumberedSaved =>
        LET fileName == ClaimedName(lastCall.outputDirectory, lastCall.datapoint)
        IN  /\ fileName \in DOMAIN files
            /\ files[fileName] =
                  VTKContent(lastCall.isVelocity, lastCall.isGradient)

\* The numbered overload was asked for the velocity section and the file it
\* wrote has none.
C29_Witness ==
    /\ NumberedSaved
    /\ lastCall.isVelocity
    /\ LET fileName == ClaimedName(lastCall.outputDirectory, lastCall.datapoint)
       IN  /\ fileName \in DOMAIN files
           /\ \A k \in DOMAIN files[fileName].sections :
                 files[fileName].sections[k].name # "velocity"

\* What does hold: the file of that name is written, with the distance
\* section and with the sections of the declared defaults.
NumberedSavesWithDefaults ==
    NumberedSaved =>
        LET fileName == ClaimedName(lastCall.outputDirectory, lastCall.datapoint)
        IN  /\ fileName \in DOMAIN files
            /\ files[fileName] = VTKContent(vtkDefaults[1], vtkDefaults[2])
            /\ Len(fileName) = (IF lastCall.outputDirectory = "" THEN 0 ELSE 2)
                                 + 2 + (IF lastCall.datapoint < 10000 THEN 4 ELSE 5)

\* The file-name overload writes the sections its flags ask for.
NamedSavesAsAsked ==
    (lastCall.op = "saveLevelSetVTK(fileName)" /\ pc = "saved") =>
        /\ lastCall.fileName \in DOMAIN files
        /\ LET names == {files[lastCall.fileName].sections[k].name :
                            k \in DOMAIN files[lastCall.fileName].sections}
           IN  /\ "distance" \in names
               /\ ("velocity" \in names) <=> lastCall.isVelocity
               /\ ("gradient" \in names) <=> lastCall.isGradient

\* A datapoint of five digits was saved under its five digits.
FiveDigitsReached ==
    /\ NumberedSaved
    /\ lastCall.datapoint = 12345
    /\ <<"level-set_", "1", "2", "3", "4", "5", ".vtk">> \in DOMAIN files


\* The last call was loadLevelSetTXT; files is as the call found it, for no
\* load changes a file and no text file is saved after a load.
Loaded == lastCall.op = "loadLevelSetTXT"

ChecksPass ==
    /\ Opens(lastCall.fileName)
    /\ LineCountMatches(lastCall.fileName)

\* C30: loadLevelSetTXT exits with a failure and leaves signedDistance as it
\* was when the file cannot be opened or its number of lines is not nNodes;
\* it writes signed distances only when both checks pass, and then never at
\* an index above nNodes - 1.
C30_LoadChecksThenWritesInRange ==
    Loaded =>
        /\ ~ChecksPass => /\ pc = "exited"
                          /\ signedDistance = lastCall.levelSet
                          /\ written = {}
        /\ ChecksPass => /\ pc # "exited"
                         /\ written \subseteq NodeSet

\* Both checks passed and the load assigned signedDistance[node] with node
\* at or above nNodes.
C30_Witness ==
    /\ Loaded
    /\ ChecksPass
    /\ \E node \in written : node >= nNodes

\* What does hold: a failed check exits with nothing written, and a file
\* that passes is read in turns of three or five numbers, whatever its lines.
LoadChecksBeforeWriting ==
    Loaded =>
        /\ ~ChecksPass => /\ pc = "exited"
                          /\ signedDistance = lastCall.levelSet
                          /\ written = {}
        /\ ChecksPass =>
              /\ pc # "exited"
              /\ written = 0 .. (Assigned(Tokens(files[lastCall.fileName]),
                                          lastCall.isXY) - 1)
              /\ (\A i \in 1 .. nNodes :
                     Len(files[lastCall.fileName][i]) = RecordSize(lastCall.isXY))
                    => /\ written = NodeSet
                       /\ pc = "loaded"

\* A file of the layout the load expects was loaded, every node from its line.
LoadedInRange ==
    /\ Loaded
    /\ pc = "loaded"
    /\ written = NodeSet
    /\ lastCall.isXY
    /\ \A n \in NodeSet : signedDistance[n] = files[lastCall.fileName][n + 1][3]
    /\ signedDistance # lastCall.levelSet

\* A load exited on a file that opens and has a line too few.
LineCountExitReached ==
    /\ Loaded
    /\ pc = "exited"
    /\ Opens(lastCall.fileName)

\* A load exited on a file that is not there.
OpenExitReached ==
    /\ Loaded
    /\ pc = "exited"
    /\ ~Opens(lastCall.fileName)

====
